---- MODULE Spec2Model ----
(***************************************************************************)
(* Model of the jdat_notebooks repository: the NIRISS AMI binary notebook  *)
(* (3_niriss_ami_binary.ipynb), its helper functions mag_diff and          *)
(* convert_params, and the cells that call them.                          *)
(*                                                                         *)
(* Numbers.  The notebook computes in IEEE-754 binary64 through numpy.    *)
(* The model computes in a decimal floating point of four significant     *)
(* digits with round-to-nearest: a value is a record                      *)
(*     [k |-> "fin", m |-> mantissa, e |-> exponent]   (m * 10^e)         *)
(* with 1000 <= |m| <= 9999 or m = 0, or one of the special values nan,   *)
(* +inf, -inf that numpy produces instead of raising.  Every operation    *)
(* rounds its result to four digits, as every binary64 operation rounds   *)
(* to 53 bits.                                                            *)
(***************************************************************************)
EXTENDS Integers, Sequences, FiniteSets, TLC

\* ------------------------------------------------------------------------
\* Decimal floating point
\* ------------------------------------------------------------------------

\* Mantissas have four decimal digits: MantLo <= |m| < MantHi.
MantHi == 10^4
MantLo == 10^3

Abs(n) == IF n < 0 THEN -n ELSE n

Sgn(n) == IF n < 0 THEN -1 ELSE IF n = 0 THEN 0 ELSE 1

\* a / b rounded to the nearest integer (halves away from zero), b > 0.
RDiv(a, b) == Sgn(a) * ((2 * Abs(a) + b) \div (2 * b))

RECURSIVE NDigits(_)
NDigits(n) == IF n < 10 THEN 1 ELSE 1 + NDigits(n \div 10)

Fin(m, e) == [k |-> "fin", m |-> m, e |-> e]
Zero == Fin(0, 0)
NaN == [k |-> "nan", m |-> 0, e |-> 0]
PInf == [k |-> "inf", m |-> 1, e |-> 0]
NInf == [k |-> "inf", m |-> -1, e |-> 0]
Inf(s) == IF s < 0 THEN NInf ELSE PInf

IsNaN(a) == a.k = "nan"
IsInf(a) == a.k = "inf"
IsFin(a) == a.k = "fin"
IsZero(a) == a.k = "fin" /\ a.m = 0

\* The float nearest to m * 10^e.
Norm(m, e) ==
    LET a == Abs(m)
        d == NDigits(a)
    IN  IF m = 0 THEN Zero
        ELSE IF d > 4
             THEN LET r == RDiv(a, 10^(d - 4))
                  IN  IF r = MantHi
                      THEN Fin(Sgn(m) * MantLo, e + d - 3)
                      ELSE Fin(Sgn(m) * r, e + d - 4)
             ELSE Fin(m * 10^(4 - d), e - (4 - d))

\* A Python int or a decimal literal n / 10^d as a float.
Lit(n, d) == Norm(n, -d)

FNeg(a) == [a EXCEPT !.m = -a.m]

\* a + b of two finite floats: exact sum of the aligned mantissas, rounded.
\* An operand more than five digits below the other is below the rounding.
FinAdd(a, b) ==
    LET d == a.e - b.e
    IN  IF a.m = 0 THEN b
        ELSE IF b.m = 0 THEN a
        ELSE IF d > 5 THEN a
        ELSE IF d < -5 THEN b
        ELSE IF d >= 0 THEN Norm(a.m * 10^d + b.m, b.e)
        ELSE Norm(a.m + b.m * 10^(-d), a.e)

FAdd(a, b) ==
    IF IsNaN(a) \/ IsNaN(b) THEN NaN
    ELSE IF IsInf(a) /\ IsInf(b) THEN (IF a.m = b.m THEN a ELSE NaN)
    ELSE IF IsInf(a) THEN a
    ELSE IF IsInf(b) THEN b
    ELSE FinAdd(a, b)

FSub(a, b) == FAdd(a, FNeg(b))

FMul(a, b) ==
    IF IsNaN(a) \/ IsNaN(b) THEN NaN
    ELSE IF IsInf(a) \/ IsInf(b)
         THEN (IF a.m = 0 \/ b.m = 0 THEN NaN ELSE Inf(Sgn(a.m) * Sgn(b.m)))
    ELSE Norm(a.m * b.m, a.e + b.e)

\* numpy float64 division: x/0 is inf or nan with a RuntimeWarning, never an
\* exception.
FDiv(a, b) ==
    IF IsNaN(a) \/ IsNaN(b) THEN NaN
    ELSE IF IsInf(a) THEN (IF IsInf(b) THEN NaN
                           ELSE Inf(a.m * (IF b.m < 0 THEN -1 ELSE 1)))
    ELSE IF IsInf(b) THEN Zero
    ELSE IF b.m = 0 THEN (IF a.m = 0 THEN NaN ELSE Inf(Sgn(a.m)))
    ELSE Norm(Sgn(b.m) * RDiv(a.m * 10^5, Abs(b.m)), a.e - b.e - 5)

\* Sign of a - b for floats that are not nan: the aligned difference is exact,
\* so the comparison is exact.
Cmp(a, b) == LET d == FSub(a, b) IN IF IsNaN(d) THEN 0 ELSE Sgn(d.m)

FLt(a, b) == ~IsNaN(a) /\ ~IsNaN(b) /\ Cmp(a, b) < 0
FLe(a, b) == ~IsNaN(a) /\ ~IsNaN(b) /\ (a = b \/ Cmp(a, b) < 0)

\* floor(sqrt(n)) by bisection, lo^2 <= n < hi^2.
RECURSIVE ISqrtIn(_, _, _)
ISqrtIn(n, lo, hi) ==
    IF hi - lo <= 1 THEN lo
    ELSE LET mid == (lo + hi) \div 2
         IN  IF mid * mid <= n THEN ISqrtIn(n, mid, hi) ELSE ISqrtIn(n, lo, mid)

ISqrt(n) == ISqrtIn(n, 0, 46340)

\* np.sqrt: nan for a negative argument (RuntimeWarning), no exception.
np_sqrt(a) ==
    IF IsNaN(a) THEN NaN
    ELSE IF IsInf(a) THEN (IF a.m > 0 THEN PInf ELSE NaN)
    ELSE IF a.m < 0 THEN NaN
    ELSE IF a.m = 0 THEN Zero
    ELSE LET odd == (a.e % 2) = 1
             m2 == IF odd THEN a.m * 10 ELSE a.m
             e2 == IF odd THEN a.e - 1 ELSE a.e
         IN  Norm(ISqrt(m2 * 10^4), (e2 - 4) \div 2)

\* log10 of a mantissa: 10^5 * log10(m / 1000) for 1000 <= m <= 9999, by the
\* shift-and-square algorithm for the binary logarithm in 14-bit fixed point.
\* y is the argument scaled by 2^14 and kept in [1, 2); acc collects the bits.
LogQ == 2^14

RECURSIVE Log2Frac(_, _, _)
Log2Frac(y, bit, acc) ==
    IF bit = 0 THEN acc
    ELSE LET y2 == (y * y + LogQ \div 2) \div LogQ
         IN  IF y2 >= 2 * LogQ
             THEN Log2Frac(y2 \div 2, bit \div 2, acc + bit)
             ELSE Log2Frac(y2, bit \div 2, acc)

RECURSIVE Log2Int(_, _)
Log2Int(y, n) == IF y >= 2 * LogQ THEN Log2Int(y \div 2, n + 1) ELSE <<y, n>>

Log10Mant(m) ==
    LET y0 == (m * LogQ) \div MantLo
        r == Log2Int(y0, 0)
        l2 == r[2] * LogQ + Log2Frac(r[1], LogQ \div 2, 0)
    IN  (l2 * 30103 + LogQ \div 2) \div LogQ

\* np.log10: -inf at 0 and nan below 0, each with a RuntimeWarning; numpy's
\* default error state warns and returns, it does not raise.
np_log10(a) ==
    IF IsNaN(a) THEN NaN
    ELSE IF IsInf(a) THEN (IF a.m > 0 THEN PInf ELSE NaN)
    ELSE IF a.m < 0 THEN NaN
    ELSE IF a.m = 0 THEN NInf
    ELSE Norm((a.e + 3) * 10^5 + Log10Mant(a.m), -5)

\* The argument of np.log10 draws a RuntimeWarning.
log10_warns(a) == ~IsNaN(a) /\ ((IsInf(a) /\ a.m < 0) \/ (IsFin(a) /\ a.m <= 0))

\* CORDIC: arctangents of 2^-i in microradians, i = 0 .. 15.
AtanTable ==
    <<785398, 463648, 244979, 124355, 62419, 31240, 15624, 7812,
      3906, 1953, 977, 488, 244, 122, 61, 31>>

CordicQ == 2^15

\* Vectoring mode: turn (u, v), u > 0 or v > 0, onto the u axis; the angle
\* turned through is atan(v / u) in microradians.
RECURSIVE CordicVec(_, _, _, _)
CordicVec(u, v, z, i) ==
    IF i > Len(AtanTable) \/ v = 0 THEN z
    ELSE LET s == 2^(i - 1)
         IN  IF v > 0
             THEN CordicVec(u + v \div s, v - u \div s, z + AtanTable[i], i + 1)
             ELSE CordicVec(u - v \div s, v + u \div s, z - AtanTable[i], i + 1)

PiMicro == 3141593

\* atan(a / b) in microradians for integers a >= 0, b >= 0, not both 0.
AtanMicro(a, b) ==
    IF b = 0 THEN PiMicro \div 2 ELSE CordicVec(b * CordicQ, a * CordicQ, 0, 1)

\* np.arctan2(x1, x2): the angle in radians of the point with ordinate x1 and
\* abscissa x2, in [-pi, pi]; exact on the axes, as in libm.  The mantissas are
\* brought to a common exponent first.
np_arctan2(x1, x2) ==
    IF ~IsFin(x1) \/ ~IsFin(x2) THEN NaN
    ELSE IF x1.m = 0 THEN (IF x2.m >= 0 THEN Zero ELSE Norm(PiMicro, -6))
    ELSE IF x2.m = 0 THEN Norm(Sgn(x1.m) * (PiMicro \div 2), -6)
    ELSE LET d == x1.e - x2.e
             a == IF d >= 0 THEN Abs(x1.m)
                  ELSE IF d < -4 THEN 0 ELSE Abs(x1.m) \div 10^(-d)
             b == IF d <= 0 THEN Abs(x2.m)
                  ELSE IF d > 4 THEN 0 ELSE Abs(x2.m) \div 10^d
             phi == AtanMicro(a, b)
         IN  IF x2.m > 0 THEN Norm(Sgn(x1.m) * phi, -6)
             ELSE Norm(Sgn(x1.m) * (PiMicro - phi), -6)

\* np.rad2deg(x) = x * (180 / pi).
np_rad2deg(a) == FMul(a, Lit(5730, 2))

\* ------------------------------------------------------------------------
\* The notebook's functions (cell "def mag_diff / def convert_params")
\* ------------------------------------------------------------------------

\* x**2
Sq(a) == FMul(a, a)

\* Mutants of mag_diff: log10(1 + f) for log10(f); the sign of 2.5 lost.
mag_diff_log1p(flux_ratio) ==
    FMul(Lit(-25, 1), np_log10(FAdd(Lit(1, 0), flux_ratio)))

mag_diff_pos(flux_ratio) == FMul(Lit(25, 1), np_log10(flux_ratio))

\* def mag_diff(flux_ratio): return -2.5 * np.log10(flux_ratio)
mag_diff(flux_ratio) == FMul(Lit(-25, 1), np_log10(flux_ratio))

\* Mutant of conv_sep: y*2 for y**2.
conv_sep_typo(x, y) == np_sqrt(FAdd(Sq(x), FMul(y, Lit(2, 0))))

\* sep = np.sqrt(x**2 + y**2)
conv_sep(x, y) == np_sqrt(FAdd(Sq(x), Sq(y)))

\* Mutants of conv_pa: np.arctan(x/y) for np.arctan2(x, y); the arguments of
\* arctan2 swapped; the 360 left out.
conv_pa_arctan(x, y) ==
    FAdd(Lit(360, 0), np_rad2deg(np_arctan2(FDiv(x, y), Lit(1, 0))))

conv_pa_swapped(x, y) == FAdd(Lit(360, 0), np_rad2deg(np_arctan2(y, x)))

conv_pa_unwrapped(x, y) == np_rad2deg(np_arctan2(x, y))

\* Mutant of conv_pa: the angle reduced modulo 360, (360 + ...) % 360.
conv_pa_mod360(x, y) ==
    LET pa == FAdd(Lit(360, 0), np_rad2deg(np_arctan2(x, y)))
    IN  IF FLe(Lit(360, 0), pa) THEN FSub(pa, Lit(360, 0)) ELSE pa

\* pa = 360 + np.rad2deg(np.arctan2(x, y))
conv_pa(x, y) == FAdd(Lit(360, 0), np_rad2deg(np_arctan2(x, y)))

\* Mutant of conv_sep_unc: ex and ey swapped.
conv_sep_unc_swapped(x, y, sep, ex, ey, sigma) ==
    FMul(np_sqrt(FAdd(Sq(FMul(FDiv(x, sep), ey)),
                      Sq(FMul(FDiv(y, sep), ex)))),
         sigma)

\* Mutant of conv_sep_unc: a guard that returns 0 for a zero separation.
conv_sep_unc_guarded(x, y, sep, ex, ey, sigma) ==
    IF IsZero(sep) THEN Zero
    ELSE FMul(np_sqrt(FAdd(Sq(FMul(FDiv(x, sep), ex)),
                           Sq(FMul(FDiv(y, sep), ey)))), sigma)

\* sep_unc = np.sqrt((x/sep*ex)**2+(y/sep*ey)**2) * sigma
conv_sep_unc(x, y, sep, ex, ey, sigma) ==
    FMul(np_sqrt(FAdd(Sq(FMul(FDiv(x, sep), ex)),
                      Sq(FMul(FDiv(y, sep), ey)))),
         sigma)

\* Mutant of conv_pa_unc: np.rad2deg left out.
conv_pa_unc_norad(x, y, sep, ex, ey, sigma) ==
    FMul(np_sqrt(FAdd(Sq(FMul(FDiv(y, Sq(sep)), ex)),
                      Sq(FMul(FDiv(FNeg(x), Sq(sep)), ey)))),
         sigma)

\* Mutant of conv_pa_unc: sigma inside the error bars and outside as well.
conv_pa_unc_sigma2(x, y, sep, ex, ey, sigma) ==
    FMul(np_rad2deg(np_sqrt(FAdd(Sq(FMul(FDiv(y, Sq(sep)), FMul(ex, sigma))),
                                 Sq(FMul(FDiv(FNeg(x), Sq(sep)),
                                         FMul(ey, sigma)))))),
         sigma)

\* pa_unc = np.rad2deg(np.sqrt((y/sep**2*ex)**2+(-x/sep**2*ey)**2)) * sigma
conv_pa_unc(x, y, sep, ex, ey, sigma) ==
    FMul(np_rad2deg(np_sqrt(FAdd(Sq(FMul(FDiv(y, Sq(sep)), ex)),
                                 Sq(FMul(FDiv(FNeg(x), Sq(sep)), ey))))),
         sigma)

\* Mutant of conv_dm_upper: the bound named upper taken from the smaller flux.
conv_dm_upper_minus(f, ef, sigma) == mag_diff(FSub(f, FMul(ef, sigma)))

\* dm_upper = mag_diff(f + ef*sigma)
conv_dm_upper(f, ef, sigma) == mag_diff(FAdd(f, FMul(ef, sigma)))

\* Mutant of conv_dm_lower: the sign of the upper bound copied.
conv_dm_lower_plus(f, ef, sigma) == mag_diff(FAdd(f, FMul(ef, sigma)))

\* dm_lower = mag_diff(f - ef*sigma)
conv_dm_lower(f, ef, sigma) == mag_diff(FSub(f, FMul(ef, sigma)))

\* Mutant of convert_params: a validity check on the flux ratio that gives up
\* on the whole result when a logarithm argument is not positive.
convert_params_checked(x, y, f, ex, ey, ef, sigma) ==
    IF FLe(f, Zero) \/ FLe(FSub(f, FMul(ef, sigma)), Zero)
    THEN <<NaN, NaN, NaN, NaN, NaN, NaN, NaN>>
    ELSE <<conv_sep(x, y), conv_pa(x, y), mag_diff(f),
           conv_sep_unc(x, y, conv_sep(x, y), ex, ey, sigma),
           conv_pa_unc(x, y, conv_sep(x, y), ex, ey, sigma),
           conv_dm_upper(f, ef, sigma), conv_dm_lower(f, ef, sigma)>>

\* def convert_params(x, y, f, ex, ey, ef, sigma=1):
\*     return sep, pa, dm, sep_unc, pa_unc, dm_upper, dm_lower
convert_params(x, y, f, ex, ey, ef, sigma) ==
    LET sep == conv_sep(x, y)
        pa == conv_pa(x, y)
        dm == mag_diff(f)
        sep_unc == conv_sep_unc(x, y, sep, ex, ey, sigma)
        pa_unc == conv_pa_unc(x, y, sep, ex, ey, sigma)
        dm_upper == conv_dm_upper(f, ef, sigma)
        dm_lower == conv_dm_lower(f, ef, sigma)
    IN  <<sep, pa, dm, sep_unc, pa_unc, dm_upper, dm_lower>>

\* The RuntimeWarnings a call of convert_params draws from np.log10: one per
\* call of mag_diff whose argument is not positive.  No exception is raised.
convert_warnings(f, ef, sigma) ==
    {w \in {"dm", "dm_upper", "dm_lower"} :
        \/ w = "dm" /\ log10_warns(f)
        \/ w = "dm_upper" /\ log10_warns(FAdd(f, FMul(ef, sigma)))
        \/ w = "dm_lower" /\ log10_warns(FSub(f, FMul(ef, sigma)))}

\* sigma=1, the default of convert_params
DefaultSigma == Lit(1, 0)

\* ------------------------------------------------------------------------
\* Inputs of the function checks
\* ------------------------------------------------------------------------

\* Bounds of the inputs handed to convert_params.
MaxCoord == 3
MaxErr == 1
MaxSigma == 2
MaxFluxQ == 4
MaxErrFluxQ == 2
MaxSep == 4
ThetaStep == 15
MaxThetaSteps == 30

\* k quarters as a float (flux ratios are drawn in steps of 0.25).
Quarter(k) == Lit(25 * k, 2)

\* The whole number a finite float holds.
AsInt(a) == IF a.e >= 0 THEN a.m * 10^a.e ELSE a.m \div 10^(-a.e)

\* round(a * 10^d) for a finite float a.
ToFixed(a, d) ==
    IF a.e + d >= 0 THEN a.m * 10^(a.e + d) ELSE RDiv(a.m, 10^(-(a.e + d)))

FAbs(a) == IF a.m < 0 THEN FNeg(a) ELSE a

\* |a - b| <= tol
Close(a, b, tol) == FLe(FAbs(FSub(a, b)), tol)

\* |a - b| <= rel * |b|
CloseRel(a, b, rel) == FLe(FAbs(FSub(a, b)), FMul(rel, FAbs(b)))

\* CORDIC in rotation mode: (u, v) turned by z microradians.
RECURSIVE CordicRot(_, _, _, _)
CordicRot(u, v, z, i) ==
    IF i > Len(AtanTable) THEN <<u, v>>
    ELSE LET s == 2^(i - 1)
         IN  IF z >= 0
             THEN CordicRot(u - v \div s, v + u \div s, z - AtanTable[i], i + 1)
             ELSE CordicRot(u + v \div s, v - u \div s, z + AtanTable[i], i + 1)

\* <<cos, sin>> in units of 10^-5 of an angle of r millidegrees, 0 <= r <= 90000.
\* 636751 is 2^20 divided by the CORDIC gain.
CosSinFirst(r) ==
    IF r = 0 THEN <<10^5, 0>>
    ELSE IF r = 90000 THEN <<0, 10^5>>
    ELSE LET uv == CordicRot(636751, 0, (r * 17453) \div 1000, 1)
             c == (((uv[1] * 1000) \div 1024) * 100) \div 1024
             n == (((uv[2] * 1000) \div 1024) * 100) \div 1024
         IN  <<c, n>>

\* <<cos, sin>> as floats of an angle of t millidegrees, any integer t.
CosSin(t) ==
    LET r == t % 360000
        q == r \div 90000
        cs == CosSinFirst(r % 90000)
        c == IF q = 0 THEN cs[1] ELSE IF q = 1 THEN -cs[2]
             ELSE IF q = 2 THEN -cs[1] ELSE cs[2]
        n == IF q = 0 THEN cs[2] ELSE IF q = 1 THEN cs[1]
             ELSE IF q = 2 THEN -cs[2] ELSE -cs[1]
    IN  <<Norm(c, -5), Norm(n, -5)>>

Args(kind, x, y, f, ex, ey, ef, sigma, s, theta) ==
    [kind |-> kind, x |-> x, y |-> y, f |-> f, ex |-> ex, ey |-> ey,
     ef |-> ef, sigma |-> sigma, s |-> s, theta |-> theta]

\* Offsets on the integer grid with every error bar and multiplier.
ArgsCoord ==
    {Args("coord", Lit(x, 0), Lit(y, 0), Quarter(2), Lit(ex, 0), Lit(ey, 0),
          Quarter(1), Lit(sg, 0), 0, 0) :
        x \in -MaxCoord..MaxCoord, y \in -MaxCoord..MaxCoord,
        ex \in 0..MaxErr, ey \in 0..MaxErr, sg \in 0..MaxSigma}

\* Flux ratios in quarters, valid and invalid, at a fixed offset.
ArgsFlux ==
    {Args("flux", Lit(-3, 0), Lit(4, 0), Quarter(f), Lit(1, 0), Lit(1, 0),
          Quarter(ef), Lit(sg, 0), 0, 0) :
        f \in -1..MaxFluxQ, ef \in 0..MaxErrFluxQ, sg \in 0..MaxSigma}

\* Offsets built from a separation s and an angle theta in degrees:
\* x = s sin(theta), y = s cos(theta).
ArgsPolar ==
    {LET cs == CosSin(k * ThetaStep * 1000)
     IN  Args("polar", FMul(Lit(s, 0), cs[2]), FMul(Lit(s, 0), cs[1]),
              Quarter(2), Lit(1, 0), Lit(1, 0), Quarter(1), Lit(1, 0),
              s, k * ThetaStep) :
        s \in 1..MaxSep, k \in -MaxThetaSteps..MaxThetaSteps}

\* x = 258.7 mas, y = 107.3 mas, f = 0.024
ArgsKnown ==
    {Args("known", Lit(2587, 1), Lit(1073, 1), Lit(24, 3), Lit(1, 0),
          Lit(1, 0), Lit(2, 3), Lit(1, 0), 0, 0)}

\* ------------------------------------------------------------------------
\* State
\* ------------------------------------------------------------------------

VARIABLES
    pc,        \* the next cell of the notebook run, "done" after the last
    nb,        \* the NIRISS notebook's namespace: its global names and values
    disk,      \* the working directory: the zip archive and the extracted data
    downloads, \* HTTP downloads performed in this working directory
    exc,       \* the exception that ended the run, "none" while it goes on
    warnings,  \* RuntimeWarnings printed so far
    call,      \* function check: the arguments of the function
    ret,       \* function check: the value the function returned, <<>> before
    notebook,  \* which of the two notebooks is run in this working directory
    log,       \* the cells executed in this run, in order, with the best fit
               \* each of them used
    mos        \* the MOS notebook's namespace

vars == <<pc, nb, disk, downloads, exc, warnings, call, ret, notebook, log,
          mos>>

\* A name that is not bound yet.
Undef == [k |-> "undef", m |-> 0, e |-> 0]
NoFit == [p |-> <<>>, dp |-> <<>>]
NoCall == Args("none", Zero, Zero, Zero, Zero, Zero, Zero, Zero, 0, 0)

\* Python's 0-based seq[i].
Idx(seq, i) == seq[i + 1]

\* ------------------------------------------------------------------------
\* What the fitting library may return (fouriever is a black box)
\* ------------------------------------------------------------------------

MaxFitFluxQ == 2
MaxFitCoord == 1

\* fit["p"] = (flux ratio, x offset, y offset), fit["dp"] their uncertainties.
FitSet ==
    {[p |-> <<Quarter(f), Lit(x, 0), Lit(y, 0)>>,
      dp |-> <<Quarter(ef), Lit(5, 1), Lit(1, 0)>>] :
        f \in -1..MaxFitFluxQ, x \in -MaxFitCoord..MaxFitCoord, y \in 0..1,
        ef \in 0..1}

\* Results of the grid searches.
GridFits == {fit \in FitSet : fit.p[1] = Quarter(1) /\ fit.dp[1] = Quarter(1)}

\* ------------------------------------------------------------------------
\* The NIRISS notebook run, cell by cell
\* ------------------------------------------------------------------------

EmptyNamespace ==
    [sep |-> Undef, theta |-> Undef, dm |-> Undef,
     fit |-> NoFit, fit_sub |-> NoFit, defined |-> FALSE,
     x |-> Undef, ex |-> Undef, y |-> Undef, ey |-> Undef,
     f |-> Undef, ef |-> Undef,
     sep_fit |-> Undef, pa_fit |-> Undef, dm_fit |-> Undef,
     sep_unc |-> Undef, pa_unc |-> Undef,
     dm_upper |-> Undef, dm_lower |-> Undef, dm_unc |-> Undef,
     printed |-> <<>>]

\* A Spectrum1D: the arrays it holds, index by index.
Spectrum(spectral_axis, flux, uncertainty) ==
    [spectral_axis |-> spectral_axis, flux |-> flux,
     uncertainty |-> uncertainty]

NoSpectrum == Spectrum(<<>>, <<>>, <<>>)
NoHdu == [flux |-> <<>>, wht |-> <<>>, CD1_1 |-> Undef, CRVAL1 |-> Undef]

\* The MOS notebook's namespace before its first cell.
EmptyMos ==
    [hdu |-> NoHdu, flux |-> <<>>, wht |-> <<>>, unc |-> <<>>, wave |-> <<>>,
     dataspec |-> <<>>, dataspec_sub |-> <<>>, table |-> "none",
     spec1d |-> NoSpectrum, cont_fit |-> <<>>, spec1d_sub |-> NoSpectrum,
     spec1d_norm |-> NoSpectrum, calls |-> <<>>,
     i |-> 0, templatelist |-> <<>>, matched |-> <<>>]

\* The downloads after which the notebook is not run again.
MaxDownloads == 2

\* The first code cell after the imports.
FirstCell(n) == IF n = "niriss" THEN "expected" ELSE "m_download"

\* A fresh kernel; the working directory is empty or holds the products of an
\* earlier run.
Init ==
    /\ notebook \in {"niriss", "mos"}
    /\ pc = FirstCell(notebook)
    /\ nb = EmptyNamespace
    /\ disk \in {[zip |-> FALSE, data |-> FALSE], [zip |-> TRUE, data |-> TRUE]}
    /\ downloads = 0
    /\ exc = "none"
    /\ warnings = {}
    /\ call = NoCall
    /\ ret = <<>>
    /\ log = <<>>
    /\ mos = EmptyMos

Running(cell) == pc = cell /\ exc = "none"

\* One executed cell: its name, the best fit it used (handed over as fit_sub=
\* or unpacked by the cell) and the fit the MCMC returned to it, NoFit where
\* there is none.
Ran(cell, fit, out) == [cell |-> cell, fit |-> fit, out |-> out]

\* sep = 370.98; theta = 286.98; dm = 4.2
\* The literals are held digit for digit: sep and theta are only printed.
Expected ==
    /\ Running("expected")
    /\ nb' = [nb EXCEPT !.sep = Fin(37098, -2), !.theta = Fin(28698, -2),
                        !.dm = Lit(42, 1)]
    /\ pc' = "download"
    /\ log' = Append(log, Ran("expected", NoFit, NoFit))
    /\ UNCHANGED <<disk, downloads, exc, warnings, call, ret>>
    /\ UNCHANGED <<notebook, mos>>

\* if not boxfile.exists(): urlretrieve(...); ZipFile(...).extractall()
DownloadSkip ==
    /\ Running("download")
    /\ disk.zip
    /\ pc' = "readoifits"
    /\ log' = Append(log, Ran("download", NoFit, NoFit))
    /\ UNCHANGED <<nb, disk, downloads, exc, warnings, call, ret>>
    /\ UNCHANGED <<notebook, mos>>

DownloadFetch ==
    /\ Running("download")
    /\ ~disk.zip
    /\ downloads' = downloads + 1
    /\ disk' = [zip |-> TRUE, data |-> TRUE]
    /\ pc' = "readoifits"
    /\ log' = Append(log, Ran("download", NoFit, NoFit))
    /\ UNCHANGED <<nb, exc, warnings, call, ret>>
    /\ UNCHANGED <<notebook, mos>>

\* urlretrieve raises and nothing catches it: before the transfer (no network,
\* HTTP error), or in the middle of it, which leaves a truncated zip behind.
DownloadFail ==
    /\ Running("download")
    /\ ~disk.zip
    /\ \/ exc' = "URLError" /\ disk' = disk
       \/ exc' = "ContentTooShortError"
          /\ disk' = [zip |-> TRUE, data |-> FALSE]
    /\ log' = Append(log, Ran("download", NoFit, NoFit))
    /\ UNCHANGED <<pc, nb, downloads, warnings, call, ret>>
    /\ UNCHANGED <<notebook, mos>>

\* fits.info(calib_oifits); fits.getheader(calib_oifits); fits.open(...)
ReadOifits ==
    /\ Running("readoifits")
    /\ IF disk.data
       THEN pc' = "covariance" /\ exc' = exc
       ELSE pc' = pc /\ exc' = "FileNotFoundError"
    /\ log' = Append(log, Ran("readoifits", NoFit, NoFit))
    /\ UNCHANGED <<nb, disk, downloads, warnings, call, ret>>
    /\ UNCHANGED <<notebook, mos>>

\* Mutant of Covariance: the grid-search cell moved away, the MCMC cell next.
Covariance_then_mcmc ==
    /\ Running("covariance")
    /\ disk.data
    /\ pc' = "mcmc"
    /\ log' = Append(log, Ran("covariance", NoFit, NoFit))
    /\ UNCHANGED <<nb, disk, downloads, exc, warnings, call, ret>>
    /\ UNCHANGED <<notebook, mos>>

\* data = intercorr.data(...); data.clear_cov(); data.add_cpcov(odir=datadir)
Covariance ==
    /\ Running("covariance")
    /\ disk.data
    /\ pc' = "chi2map"
    /\ log' = Append(log, Ran("covariance", NoFit, NoFit))
    /\ UNCHANGED <<nb, disk, downloads, exc, warnings, call, ret>>
    /\ UNCHANGED <<notebook, mos>>

\* data = uvfit.data(...); fit = data.chi2map(...)
Chi2map ==
    /\ Running("chi2map")
    /\ \E r \in GridFits :
          /\ nb' = [nb EXCEPT !.fit = r]
          /\ log' = Append(log, Ran("chi2map", NoFit, NoFit))
    /\ pc' = "mcmc"
    /\ UNCHANGED <<disk, downloads, exc, warnings, call, ret>>
    /\ UNCHANGED <<notebook, mos>>

\* fit = data.mcmc(fit=fit, ...)
Mcmc ==
    /\ Running("mcmc")
    /\ \E r \in FitSet :
          /\ nb' = [nb EXCEPT !.fit = r]
          /\ log' = Append(log, Ran("mcmc", NoFit, r))
    /\ pc' = "chi2map_sub"
    /\ UNCHANGED <<disk, downloads, exc, warnings, call, ret>>
    /\ UNCHANGED <<notebook, mos>>

\* Mutant of Chi2mapSub: the result assigned to fit instead of fit_sub.
Chi2mapSub_overwrite ==
    /\ Running("chi2map_sub")
    /\ \E r \in GridFits :
          /\ nb' = [nb EXCEPT !.fit = r, !.fit_sub = r]
          /\ log' = Append(log, Ran("chi2map_sub", nb.fit, NoFit))
    /\ pc' = "defs"
    /\ UNCHANGED <<disk, downloads, exc, warnings, call, ret>>
    /\ UNCHANGED <<notebook, mos>>

\* fit_sub = data.chi2map_sub(fit_sub=fit, ...)
Chi2mapSub ==
    /\ Running("chi2map_sub")
    /\ \E r \in GridFits :
          /\ nb' = [nb EXCEPT !.fit_sub = r]
          /\ log' = Append(log, Ran("chi2map_sub", nb.fit, NoFit))
    /\ pc' = "defs"
    /\ UNCHANGED <<disk, downloads, exc, warnings, call, ret>>
    /\ UNCHANGED <<notebook, mos>>

\* def mag_diff ...; def convert_params ...
Defs ==
    /\ Running("defs")
    /\ nb' = [nb EXCEPT !.defined = TRUE]
    /\ pc' = "getparams"
    /\ log' = Append(log, Ran("defs", NoFit, NoFit))
    /\ UNCHANGED <<disk, downloads, exc, warnings, call, ret>>
    /\ UNCHANGED <<notebook, mos>>

\* Mutant of mean_dm_unc: dm-dm_lower for dm_lower-dm.
mean_dm_unc_signs(dm, dm_upper, dm_lower) ==
    FDiv(FAdd(FSub(dm, dm_upper), FSub(dm, dm_lower)), Lit(2, 0))

\* dm_unc = np.mean([dm-dm_upper, dm_lower-dm])
mean_dm_unc(dm, dm_upper, dm_lower) ==
    FDiv(FAdd(FSub(dm, dm_upper), FSub(dm_lower, dm)), Lit(2, 0))

\* A logarithm argument of convert_params(x, y, f, ex, ey, ef) is not positive.
InvalidLogArgs(f, ef) == FLe(f, Zero) \/ FLe(FSub(f, ef), Zero)

\* Mutant of GetParams: math.log10 for np.log10, which raises ValueError on a
\* non-positive argument and ends the cell after x .. ef are bound.
GetParams_math ==
    /\ Running("getparams")
    /\ LET x == Idx(nb.fit.p, 1)
           ex == Idx(nb.fit.dp, 1)
           y == Idx(nb.fit.p, 2)
           ey == Idx(nb.fit.dp, 2)
           f == Idx(nb.fit.p, 0)
           ef == Idx(nb.fit.dp, 0)
           r == convert_params(x, y, f, ex, ey, ef, DefaultSigma)
       IN  IF InvalidLogArgs(f, ef)
           THEN /\ nb' = [nb EXCEPT !.x = x, !.ex = ex, !.y = y, !.ey = ey,
                                    !.f = f, !.ef = ef]
                /\ exc' = "ValueError"
                /\ pc' = pc
           ELSE /\ nb' = [nb EXCEPT !.x = x, !.ex = ex, !.y = y, !.ey = ey,
                                    !.f = f, !.ef = ef,
                                    !.sep_fit = r[1], !.pa_fit = r[2],
                                    !.dm_fit = r[3], !.sep_unc = r[4],
                                    !.pa_unc = r[5], !.dm_upper = r[6],
                                    !.dm_lower = r[7],
                                    !.dm_unc = mean_dm_unc(nb.dm, r[6], r[7])]
                /\ exc' = exc
                /\ pc' = "print"
    /\ log' = Append(log, Ran("getparams", nb.fit, NoFit))
    /\ UNCHANGED <<disk, downloads, warnings, call, ret>>
    /\ UNCHANGED <<notebook, mos>>

\* Mutant of GetParams: convert_params declares "global sep, dm", so its
\* assignments to sep and dm land in the notebook's namespace.
GetParams_global ==
    /\ Running("getparams")
    /\ LET x == Idx(nb.fit.p, 1)
           ex == Idx(nb.fit.dp, 1)
           y == Idx(nb.fit.p, 2)
           ey == Idx(nb.fit.dp, 2)
           f == Idx(nb.fit.p, 0)
           ef == Idx(nb.fit.dp, 0)
           r == convert_params(x, y, f, ex, ey, ef, DefaultSigma)
       IN  /\ nb' = [nb EXCEPT !.x = x, !.ex = ex, !.y = y, !.ey = ey,
                               !.f = f, !.ef = ef,
                               !.sep = r[1], !.dm = r[3],
                               !.sep_fit = r[1], !.pa_fit = r[2],
                               !.dm_fit = r[3], !.sep_unc = r[4],
                               !.pa_unc = r[5], !.dm_upper = r[6],
                               !.dm_lower = r[7],
                               !.dm_unc = mean_dm_unc(r[3], r[6], r[7])]
           /\ warnings' = warnings \cup convert_warnings(f, ef, DefaultSigma)
    /\ pc' = "print"
    /\ log' = Append(log, Ran("getparams", nb.fit, NoFit))
    /\ UNCHANGED <<disk, downloads, exc, call, ret>>
    /\ UNCHANGED <<notebook, mos>>

\* Mutant of GetParams: the x offset taken from index 2 and the y offset from
\* index 1, each with the uncertainty of the other.
GetParams_swapped ==
    /\ Running("getparams")
    /\ LET x == Idx(nb.fit.p, 2)
           ex == Idx(nb.fit.dp, 2)
           y == Idx(nb.fit.p, 1)
           ey == Idx(nb.fit.dp, 1)
           f == Idx(nb.fit.p, 0)
           ef == Idx(nb.fit.dp, 0)
           r == convert_params(x, y, f, ex, ey, ef, DefaultSigma)
       IN  /\ nb' = [nb EXCEPT !.x = x, !.ex = ex, !.y = y, !.ey = ey,
                               !.f = f, !.ef = ef,
                               !.sep_fit = r[1], !.pa_fit = r[2],
                               !.dm_fit = r[3], !.sep_unc = r[4],
                               !.pa_unc = r[5], !.dm_upper = r[6],
                               !.dm_lower = r[7],
                               !.dm_unc = mean_dm_unc(nb.dm, r[6], r[7])]
           /\ warnings' = warnings \cup convert_warnings(f, ef, DefaultSigma)
    /\ pc' = "print"
    /\ log' = Append(log, Ran("getparams", nb.fit, NoFit))
    /\ UNCHANGED <<disk, downloads, exc, call, ret>>
    /\ UNCHANGED <<notebook, mos>>

\* x, ex = fit["p"][1], fit["dp"][1]; y, ey = ...[2]; f, ef = ...[0]
\* sep_fit, ..., dm_lower = convert_params(x, y, f, ex, ey, ef); dm_unc = ...
\* The cell has no try/except.  np.log10 of a non-positive flux warns and
\* returns nan or -inf, so the cell runs to its end.
GetParams ==
    /\ Running("getparams")
    /\ LET x == Idx(nb.fit.p, 1)
           ex == Idx(nb.fit.dp, 1)
           y == Idx(nb.fit.p, 2)
           ey == Idx(nb.fit.dp, 2)
           f == Idx(nb.fit.p, 0)
           ef == Idx(nb.fit.dp, 0)
           r == convert_params(x, y, f, ex, ey, ef, DefaultSigma)
       IN  /\ nb' = [nb EXCEPT !.x = x, !.ex = ex, !.y = y, !.ey = ey,
                               !.f = f, !.ef = ef,
                               !.sep_fit = r[1], !.pa_fit = r[2],
                               !.dm_fit = r[3], !.sep_unc = r[4],
                               !.pa_unc = r[5], !.dm_upper = r[6],
                               !.dm_lower = r[7],
                               !.dm_unc = mean_dm_unc(nb.dm, r[6], r[7])]
           /\ warnings' = warnings \cup convert_warnings(f, ef, DefaultSigma)
    /\ pc' = "print"
    /\ log' = Append(log, Ran("getparams", nb.fit, NoFit))
    /\ UNCHANGED <<disk, downloads, exc, call, ret>>
    /\ UNCHANGED <<notebook, mos>>

\* '%.3f' % a and '%.2f' % a: the number rounded to d decimals, or the text
\* 'nan' / 'inf' / '-inf' of a value that is not finite.
Fmt(a, d) ==
    IF IsFin(a) THEN [text |-> "fixed", n |-> ToFixed(a, d), d |-> d]
    ELSE [text |-> a.k, n |-> a.m, d |-> d]

\* print('Sep [mas]:   %.3f      %.3f +/- %.2f' % (sep, sep_fit, sep_unc))
\* and the lines for theta and dm after it
PrintTable ==
    /\ Running("print")
    /\ nb' = [nb EXCEPT !.printed =
                 << <<Fmt(nb.sep, 3), Fmt(nb.sep_fit, 3), Fmt(nb.sep_unc, 2)>>,
                    <<Fmt(nb.theta, 3), Fmt(nb.pa_fit, 3), Fmt(nb.pa_unc, 2)>>,
                    <<Fmt(nb.dm, 3), Fmt(nb.dm_fit, 3), Fmt(nb.dm_unc, 2)>> >>]
    /\ pc' = "detlim"
    /\ log' = Append(log, Ran("print", NoFit, NoFit))
    /\ UNCHANGED <<disk, downloads, exc, warnings, call, ret>>
    /\ UNCHANGED <<notebook, mos>>

\* data.detlim(sigma=3., fit_sub=fit, ...)
Detlim ==
    /\ Running("detlim")
    /\ pc' = "image"
    /\ log' = Append(log, Ran("detlim", nb.fit, NoFit))
    /\ UNCHANGED <<nb, disk, downloads, exc, warnings, call, ret>>
    /\ UNCHANGED <<notebook, mos>>

\* bright_im = fits.getdata('./niriss_ami_binary3/...fits') and the plot of it
Image ==
    /\ Running("image")
    /\ disk.data
    /\ pc' = "done"
    /\ log' = Append(log, Ran("image", NoFit, NoFit))
    /\ UNCHANGED <<nb, disk, downloads, exc, warnings, call, ret>>
    /\ UNCHANGED <<notebook, mos>>

\* ------------------------------------------------------------------------
\* The MOS notebook run, cell by cell
\* ------------------------------------------------------------------------

\* Pixels of the observed 1D spectrum.
NPix == 3

\* The weight of pixel i of the weight file: negative, zero, or a positive
\* weight of its own (1, 4, 16, ...).
PixelWeight(i, sign) == IF sign > 0 THEN 4^(i - 1) ELSE sign

\* What legac_M1_v3.7_spec1d_130902.fits and ..._wht1d_... may hold: the flux
\* and the weight of each pixel and the header's wavelength solution.  At
\* least one pixel has a positive weight.
SpecFiles ==
    {[flux |-> [i \in 1..NPix |-> Lit(10 * i + 5, 0)],
      wht |-> [i \in 1..NPix |-> Lit(PixelWeight(i, w[i]), 0)],
      CD1_1 |-> Lit(6, 1), CRVAL1 |-> Lit(6000, 0)] :
        w \in {v \in [1..NPix -> {-1, 0, 1}] : \E i \in 1..NPix : v[i] > 0}}

\* urllib.request.urlretrieve(boxlink, boxfile); zf = zipfile.ZipFile(...);
\* zf.extractall().  No test of what is on disk comes before the download.
MosDownload ==
    /\ Running("m_download")
    /\ downloads' = downloads + 1
    /\ disk' = [zip |-> TRUE, data |-> TRUE]
    /\ pc' = "m_open"
    /\ log' = Append(log, Ran("m_download", NoFit, NoFit))
    /\ UNCHANGED <<nb, exc, warnings, call, ret, notebook, mos>>

\* urlretrieve raises and nothing catches it.
MosDownloadFail ==
    /\ Running("m_download")
    /\ \/ exc' = "URLError" /\ disk' = disk
       \/ exc' = "ContentTooShortError"
          /\ disk' = [zip |-> TRUE, data |-> disk.data]
    /\ log' = Append(log, Ran("m_download", NoFit, NoFit))
    /\ UNCHANGED <<pc, nb, downloads, warnings, call, ret, notebook, mos>>

\* hdu2d = fits.open(file2d); hdu1d = fits.open(file1d);
\* hdu1dwht = fits.open(file1dwht)
MosOpen ==
    /\ Running("m_open")
    /\ disk.data
    /\ \E h \in SpecFiles : mos' = [mos EXCEPT !.hdu = h]
    /\ pc' = "m_pandas"
    /\ log' = Append(log, Ran("m_open", NoFit, NoFit))
    /\ UNCHANGED <<nb, disk, downloads, exc, warnings, call, ret,
                   notebook>>

\* unc = 1./ np.sqrt(wht), element by element; np.seterr(all='ignore')
mos_unc(wht) == [i \in DOMAIN wht |-> FDiv(Lit(1, 0), np_sqrt(wht[i]))]

\* wave = np.arange(flux.shape[0])*hdu1d[0].header['CD1_1'] + ...['CRVAL1']
mos_wave(hdu) ==
    [i \in DOMAIN hdu.flux |-> FAdd(FMul(Lit(i - 1, 0), hdu.CD1_1), hdu.CRVAL1)]

\* The rows of a table with the columns wavelength, flux, weight and
\* uncertainty; index is the row label.
mos_table(wave, flux, wht, unc) ==
    [i \in DOMAIN flux |->
        [index |-> i - 1, wavelength |-> wave[i], flux |-> flux[i],
         weight |-> wht[i], uncertainty |-> unc[i]]]

\* Mutant of weight_positive: >= for >.
weight_nonnegative(row) == FLe(Zero, row.weight)

\* dataspec['weight'] > 0.
weight_positive(row) == FLt(Zero, row.weight)

\* table[mask]: the rows the mask keeps, in their order, labels kept.
mos_filter(table) == SelectSeq(table, weight_positive)

\* .reset_index(drop=True): the rows relabelled 0, 1, ...
reset_index(table) == [i \in DOMAIN table |-> [table[i] EXCEPT !.index = i - 1]]

\* flux = ...byteswap().newbyteorder(); wht = ...; unc = ...; wave = ...
\* dataspec = pd.DataFrame(data=d)
\* dataspec_sub = dataspec[dataspec['weight'] > 0.].reset_index(drop=True)
MosPandas ==
    /\ Running("m_pandas")
    /\ LET flux == mos.hdu.flux
           wht == mos.hdu.wht
           unc == mos_unc(wht)
           wave == mos_wave(mos.hdu)
           dataspec == mos_table(wave, flux, wht, unc)
       IN  mos' = [mos EXCEPT !.flux = flux, !.wht = wht, !.unc = unc,
                              !.wave = wave, !.dataspec = dataspec,
                              !.dataspec_sub = reset_index(mos_filter(dataspec)),
                              !.table = "DataFrame"]
    /\ pc' = "m_qtable"
    /\ log' = Append(log, Ran("m_pandas", NoFit, NoFit))
    /\ UNCHANGED <<nb, disk, downloads, exc, warnings, call, ret,
                   notebook>>

\* flux = hdu1d[0].data; wht = hdu1dwht[0].data; unc = ...; wave = ...
\* dataspec = QTable([wave*u.angstrom, flux*spec_unit, wht, unc*spec_unit], ...)
\* dataspec_sub = dataspec[dataspec['weight']>0.]
\* A QTable has no row labels: its rows are numbered by position.
MosQTable ==
    /\ Running("m_qtable")
    /\ LET flux == mos.hdu.flux
           wht == mos.hdu.wht
           unc == mos_unc(wht)
           wave == mos_wave(mos.hdu)
           dataspec == mos_table(wave, flux, wht, unc)
       IN  mos' = [mos EXCEPT !.flux = flux, !.wht = wht, !.unc = unc,
                              !.wave = wave, !.dataspec = dataspec,
                              !.dataspec_sub = reset_index(mos_filter(dataspec)),
                              !.table = "QTable"]
    /\ pc' = "m_spec1d"
    /\ log' = Append(log, Ran("m_qtable", NoFit, NoFit))
    /\ UNCHANGED <<nb, disk, downloads, exc, warnings, call, ret,
                   notebook>>

\* One column of a table.
Column(table, name) == [i \in DOMAIN table |-> table[i][name]]

\* spec1d = Spectrum1D(spectral_axis=dataspec_sub['wavelength'],
\*                     flux=dataspec_sub['flux'],
\*                     uncertainty=StdDevUncertainty(dataspec_sub['uncertainty']))
MosSpec1d ==
    /\ Running("m_spec1d")
    /\ mos' = [mos EXCEPT !.spec1d =
                  Spectrum(Column(mos.dataspec_sub, "wavelength"),
                           Column(mos.dataspec_sub, "flux"),
                           Column(mos.dataspec_sub, "uncertainty"))]
    /\ pc' = "m_continuum"
    /\ log' = Append(log, Ran("m_spec1d", NoFit, NoFit))
    /\ UNCHANGED <<nb, disk, downloads, exc, warnings, call, ret,
                   notebook>>

\* A call of a specutils routine: its name and the spectrum it was handed.
Used(fn, spectrum) == [fn |-> fn, spectrum |-> spectrum]

\* The continuum levels fit_generic_continuum may find (specutils is a black
\* box): a flat continuum at one of these levels.
ContinuumLevels == {Lit(5, 0), Lit(10, 0)}

\* spec1d_gsmooth = gaussian_smooth(spec1d, stddev=5)
\* cont_spec1d = fit_generic_continuum(spec1d)
\* cont_fit = cont_spec1d(spec1d.spectral_axis)
MosContinuum ==
    /\ Running("m_continuum")
    /\ \E c \in ContinuumLevels :
          mos' = [mos EXCEPT
                     !.cont_fit = [i \in DOMAIN mos.spec1d.flux |-> c],
                     !.calls = mos.calls \o
                               <<Used("gaussian_smooth", mos.spec1d),
                                 Used("fit_generic_continuum", mos.spec1d)>>]
    /\ pc' = "m_subtract"
    /\ log' = Append(log, Ran("m_continuum", NoFit, NoFit))
    /\ UNCHANGED <<nb, disk, downloads, exc, warnings, call, ret,
                   notebook>>

\* spec1d - cont_fit: a new Spectrum1D, the continuum taken off the flux.
spectrum_minus(s, q) ==
    Spectrum(s.spectral_axis, [i \in DOMAIN s.flux |-> FSub(s.flux[i], q[i])],
             s.uncertainty)

\* spec1d / cont_fit: a new Spectrum1D, flux and uncertainty divided.
spectrum_over(s, q) ==
    Spectrum(s.spectral_axis, [i \in DOMAIN s.flux |-> FDiv(s.flux[i], q[i])],
             [i \in DOMAIN s.flux |-> FDiv(s.uncertainty[i], FAbs(q[i]))])

\* Mutant of MosSubtract: spec1d -= cont_fit, the subtraction done in place.
MosSubtract_inplace ==
    /\ Running("m_subtract")
    /\ LET sub == spectrum_minus(mos.spec1d, mos.cont_fit)
       IN  mos' = [mos EXCEPT !.spec1d = sub, !.spec1d_sub = sub]
    /\ pc' = "m_lines"
    /\ log' = Append(log, Ran("m_subtract", NoFit, NoFit))
    /\ UNCHANGED <<nb, disk, downloads, exc, warnings, call, ret,
                   notebook>>

\* spec1d_sub = spec1d - cont_fit
MosSubtract ==
    /\ Running("m_subtract")
    /\ mos' = [mos EXCEPT !.spec1d_sub = spectrum_minus(mos.spec1d, mos.cont_fit)]
    /\ pc' = "m_lines"
    /\ log' = Append(log, Ran("m_subtract", NoFit, NoFit))
    /\ UNCHANGED <<nb, disk, downloads, exc, warnings, call, ret,
                   notebook>>

\* lines = find_lines_derivative(spec1d_sub, flux_threshold=50)
\* lines = find_lines_threshold(spec1d_sub, noise_factor=6)
\* centroid(spec1d_sub, ...); sline = centroid(spec1d_sub, ...)
\* line_flux(spec1d_sub, ...); g_fit = fit_lines(spec1d_sub, g_init)
MosLines ==
    /\ Running("m_lines")
    /\ mos' = [mos EXCEPT !.calls = mos.calls \o
                  <<Used("find_lines_derivative", mos.spec1d_sub),
                    Used("find_lines_threshold", mos.spec1d_sub),
                    Used("centroid", mos.spec1d_sub),
                    Used("centroid", mos.spec1d_sub),
                    Used("line_flux", mos.spec1d_sub),
                    Used("fit_lines", mos.spec1d_sub)>>]
    /\ pc' = "m_normalize"
    /\ log' = Append(log, Ran("m_lines", NoFit, NoFit))
    /\ UNCHANGED <<nb, disk, downloads, exc, warnings, call, ret,
                   notebook>>

\* spec1d_norm = spec1d / cont_fit
\* equivalent_width(spec1d_norm, regions=SpectralRegion(...))
MosNormalize ==
    /\ Running("m_normalize")
    /\ LET norm == spectrum_over(mos.spec1d, mos.cont_fit)
       IN  mos' = [mos EXCEPT !.spec1d_norm = norm,
                              !.calls = Append(mos.calls,
                                               Used("equivalent_width", norm))]
    /\ pc' = "m_templates"
    /\ log' = Append(log, Ran("m_normalize", NoFit, NoFit))
    /\ UNCHANGED <<nb, disk, downloads, exc, warnings, call, ret,
                   notebook>>

\* for i in range (1, 101):
RangeStart == 1
RangeStop == 101

\* {1:05d}
PadWidth == 5

\* The decimal digits of n >= 0, most significant first.
RECURSIVE Digits(_)
Digits(n) == IF n < 10 THEN <<n>> ELSE Append(Digits(n \div 10), n % 10)

\* "{:0Wd}".format(n): the digits of n, zeros in front up to the width W.
ZeroPad(n, width) ==
    LET d == Digits(n)
    IN  IF Len(d) >= width THEN d
        ELSE [k \in 1..(width - Len(d)) |-> 0] \o d

\* Mutant of template_name: {1:5d}, no zero flag, keeps the bare digits here.
template_name_unpadded(templatedir, i) ==
    [dir |-> templatedir, digits |-> Digits(i), ext |-> ".dat"]

\* "{0}{1:05d}.dat".format(templatedir, i)
template_name(templatedir, i) ==
    [dir |-> templatedir, digits |-> ZeroPad(i, PadWidth), ext |-> ".dat"]

\* templatedir = './mos_spectroscopy/templates/'; zz = 0.758
\* templatelist = []; the loop variable takes the first value of the range
MosTemplates ==
    /\ Running("m_templates")
    /\ mos' = [mos EXCEPT !.templatelist = <<>>, !.i = RangeStart]
    /\ pc' = "m_loop"
    /\ log' = Append(log, Ran("m_templates", NoFit, NoFit))
    /\ UNCHANGED <<nb, disk, downloads, exc, warnings, call, ret,
                   notebook>>

\* One turn of the loop: template_file = ...; template = ascii.read(...);
\* temp1d = Spectrum1D(...); templatelist.append(temp1d)
MosReadTemplate ==
    /\ Running("m_loop")
    /\ mos.i < RangeStop
    /\ disk.data
    /\ LET template_file == template_name("./mos_spectroscopy/templates/", mos.i)
       IN  mos' = [mos EXCEPT
                      !.templatelist = Append(mos.templatelist, template_file),
                      !.i = mos.i + 1]
    /\ UNCHANGED <<pc, log, nb, disk, downloads, exc, warnings, call, ret,
                   notebook>>

\* After the loop: tm_results = template_comparison.template_match(
\*     observed_spectrum=spec1d, spectral_templates=templatelist, ...)
MosTemplateMatch ==
    /\ Running("m_loop")
    /\ ~(mos.i < RangeStop)
    /\ mos' = [mos EXCEPT !.matched = mos.templatelist,
                          !.calls = Append(mos.calls,
                                           Used("template_match", mos.spec1d))]
    /\ pc' = "done"
    /\ log' = Append(log, Ran("m_loop", NoFit, NoFit))
    /\ UNCHANGED <<nb, disk, downloads, exc, warnings, call, ret,
                   notebook>>

\* ------------------------------------------------------------------------
\* The NIRISS notebook's look at the data: baselines, labels, annotations
\* ------------------------------------------------------------------------

\* Mutant of np_max: the first element.
np_first(a) == a[1]

\* np.max of a list of finite floats
np_max(a) ==
    CHOOSE m \in {a[i] : i \in DOMAIN a} : \A i \in DOMAIN a : FLe(a[i], m)

\* np.abs(np.sqrt((x2 - x1)**2. + (y2 - y1)**2.)) for the sub-apertures at the
\* 0-based rows hole1 and hole2 of hole_ctrs
hole_distance(hole_ctrs, hole1, hole2) ==
    LET x1 == Idx(Idx(hole_ctrs, hole1), 0)
        y1 == Idx(Idx(hole_ctrs, hole1), 1)
        x2 == Idx(Idx(hole_ctrs, hole2), 0)
        y2 == Idx(Idx(hole_ctrs, hole2), 1)
    IN  FAbs(np_sqrt(FAdd(Sq(FSub(x2, x1)), Sq(FSub(y2, y1)))))

\* for bl in bl_idx: hole1, hole2 = (bl[0] - 1), (bl[1] - 1); ...
\*     baselines.append(length)
calc_baselines(hole_ctrs, bl_idx) ==
    [r \in DOMAIN bl_idx |->
        hole_distance(hole_ctrs, Idx(bl_idx[r], 0) - 1, Idx(bl_idx[r], 1) - 1)]

\* for tri in tri_idx: ...; tri_lengths = [length12, length23, length31]
\*     tri_baselines.append(tri_lengths)
calc_tri_baselines(hole_ctrs, tri_idx) ==
    [r \in DOMAIN tri_idx |->
        LET hole1 == Idx(tri_idx[r], 0) - 1
            hole2 == Idx(tri_idx[r], 1) - 1
            hole3 == Idx(tri_idx[r], 2) - 1
        IN  <<hole_distance(hole_ctrs, hole1, hole2),
              hole_distance(hole_ctrs, hole2, hole3),
              hole_distance(hole_ctrs, hole3, hole1)>>]

\* tri_longest.append(np.max(tri_lengths))
calc_tri_longest(tri_baselines) ==
    [r \in DOMAIN tri_baselines |-> np_max(tri_baselines[r])]

\* baselines / wavel, element by element
over_wavel(lengths, wavel) == [r \in DOMAIN lengths |-> FDiv(lengths[r], wavel)]

\* str(idx[0])+'_'+str(idx[1]) and the same with idx[2]: the decimal digits
\* of each index, joined by '_'
sta_label(idx) == [digits |-> [k \in DOMAIN idx |-> Digits(idx[k])], sep |-> "_"]

sta_labels(sta_idx) == [r \in DOMAIN sta_idx |-> sta_label(sta_idx[r])]

\* for ii, tri in enumerate(tri_strings):
\*     ax1.annotate(tri, (bmaxlambda_cp[ii], cp[ii]), ...)
annotate(strings, bmaxlambda, values) ==
    [r \in DOMAIN strings |->
        [text |-> strings[r], xy |-> <<bmaxlambda[r], values[r]>>]]

\* The notebook is run again from the top in a fresh kernel, after a complete
\* run or after one an exception ended.  The working directory stays.
Restart ==
    /\ pc = "done" \/ exc # "none"
    /\ downloads < MaxDownloads
    /\ pc' = FirstCell(notebook)
    /\ nb' = EmptyNamespace
    /\ mos' = EmptyMos
    /\ exc' = "none"
    /\ warnings' = {}
    /\ log' = <<>>
    /\ UNCHANGED <<disk, downloads, call, ret, notebook>>

Next ==
    \/ Expected
    \/ DownloadSkip
    \/ DownloadFetch
    \/ DownloadFail
    \/ ReadOifits
    \/ Covariance
    \/ Chi2map
    \/ Mcmc
    \/ Chi2mapSub
    \/ Defs
    \/ GetParams
    \/ PrintTable
    \/ Detlim
    \/ Image
    \/ MosDownload
    \/ MosDownloadFail
    \/ MosOpen
    \/ MosPandas
    \/ MosQTable
    \/ MosSpec1d
    \/ MosContinuum
    \/ MosSubtract
    \/ MosLines
    \/ MosNormalize
    \/ MosTemplates
    \/ MosReadTemplate
    \/ MosTemplateMatch
    \/ Restart

Spec == Init /\ [][Next]_vars

\* ------------------------------------------------------------------------
\* The function check: convert_params applied to bounded inputs
\* ------------------------------------------------------------------------

InitConv ==
    /\ pc = "expected"
    /\ nb = EmptyNamespace
    /\ disk = [zip |-> FALSE, data |-> FALSE]
    /\ downloads = 0
    /\ exc = "none"
    /\ warnings = {}
    /\ call \in ArgsCoord \cup ArgsFlux \cup ArgsPolar \cup ArgsKnown
    /\ ret = <<>>
    /\ notebook = "niriss"
    /\ log = <<>>
    /\ mos = EmptyMos

CallConvert ==
    /\ ret = <<>>
    /\ ret' = convert_params(call.x, call.y, call.f, call.ex, call.ey,
                             call.ef, call.sigma)
    /\ warnings' = warnings \cup convert_warnings(call.f, call.ef, call.sigma)
    /\ UNCHANGED <<pc, nb, disk, downloads, exc, call>>
    /\ UNCHANGED <<notebook, log, mos>>

NextConv == CallConvert

SpecConv == InitConv /\ [][NextConv]_vars

Returned == ret # <<>>

\* ------------------------------------------------------------------------
\* Properties
\* ------------------------------------------------------------------------

\* Rounding allowance of the four-digit arithmetic: relative 0.5 %, and
\* 0.25 degrees on an angle (a position angle above 100 degrees is held to
\* 0.1 degree).
RelTol == Lit(5, 3)
AngTol == Lit(25, 2)

\* The angles a and t (hundredths of a degree) agree modulo 360 degrees up to
\* the allowance.
CongruentMod360(a, t) ==
    LET d == (a - t) % 36000
    IN  d <= ToFixed(AngTol, 2) \/ d >= 36000 - ToFixed(AngTol, 2)

\* C1: round trip.  For a separation s > 0 and an angle theta, convert_params
\* called with x = s sin(theta), y = s cos(theta) returns the separation s and a
\* position angle equal to theta modulo 360 degrees (up to rounding).
C1_RoundTrip ==
    (Returned /\ call.kind = "polar") =>
        /\ CloseRel(ret[1], Lit(call.s, 0), RelTol)
        /\ IsFin(ret[2])
        /\ CongruentMod360(ToFixed(ret[2], 2), call.theta * 100)

\* C1 witness: a round trip through an angle outside [0, 360) has been made.
C1_Witness ==
    /\ Returned
    /\ call.kind = "polar"
    /\ call.s = 3
    /\ call.theta = -ThetaStep
    /\ CongruentMod360(ToFixed(ret[2], 2), call.theta * 100)

\* C2 as stated: with x = 258.7, y = 107.3, f = 0.024 convert_params returns a
\* separation of about 280.0 mas, a position angle of about 292.6 degrees and a
\* magnitude difference of about 4.0 mag.
C2_KnownScenario_Original ==
    (Returned /\ call.kind = "known") =>
        /\ Close(ret[1], Lit(2800, 1), Lit(15, 2))
        /\ Close(ret[2], Lit(2926, 1), Lit(15, 2))
        /\ Close(ret[3], Lit(40, 1), Lit(1, 1))

\* C2 amended: with x = 258.7, y = 107.3, f = 0.024 convert_params returns a
\* separation of about 280.0 mas, a position angle of about 427.5 degrees
\* (67.5 + 360: the point lies 67.5 degrees from +y toward +x) and a magnitude
\* difference of about 4.0 mag.
C2_KnownScenario ==
    (Returned /\ call.kind = "known") =>
        /\ Close(ret[1], Lit(2800, 1), Lit(15, 2))
        /\ Close(ret[2], Lit(4275, 1), Lit(15, 2))
        /\ Close(ret[3], Lit(40, 1), Lit(1, 1))

\* C2 witness: the known scenario has been converted and its angle is past 360.
C2_Witness ==
    /\ Returned
    /\ call.kind = "known"
    /\ FLt(Lit(360, 0), ret[2])
    /\ IsFin(ret[3])

\* C3: for x = 0 and y > 0 the position angle is exactly 360 degrees; in
\* general it is 360 + atan2(x, y) in degrees, the angle a measured from the +y
\* axis toward +x: -180 <= a <= 180, sep sin(a) = x and sep cos(a) = y.
C3_PositionAngle ==
    (Returned /\ call.kind = "coord") =>
        LET a == FSub(ret[2], Lit(360, 0))
            cs == CosSin(ToFixed(a, 3))
            tol == FMul(RelTol, ret[1])
        IN  /\ (IsZero(call.x) /\ call.y.m > 0) => ret[2] = Lit(360, 0)
            /\ ~IsZero(ret[1]) =>
                   /\ FLe(Lit(-180, 0), a) /\ FLe(a, Lit(180, 0))
                   /\ Close(FMul(ret[1], cs[2]), call.x, tol)
                   /\ Close(FMul(ret[1], cs[1]), call.y, tol)

\* C3 witness: a point on the +y axis has been converted to exactly 360.
C3_Witness ==
    /\ Returned
    /\ call.kind = "coord"
    /\ IsZero(call.x)
    /\ call.y = Lit(2, 0)
    /\ ret[2] = Lit(360, 0)

\* sigma sqrt((y/sep^2 ex)^2 + (x/sep^2 ey)^2), in radians, from the whole
\* numbers of the call: sigma sqrt(y^2 ex^2 + x^2 ey^2) / (x^2 + y^2).
RefPaUncRad ==
    LET x == AsInt(call.x)
        y == AsInt(call.y)
        ex == AsInt(call.ex)
        ey == AsInt(call.ey)
    IN  FMul(call.sigma,
             FDiv(np_sqrt(Lit(y * y * ex * ex + x * x * ey * ey, 0)),
                  Lit(x * x + y * y, 0)))

\* C4 as stated: the position-angle uncertainty equals
\* sigma sqrt((y/sep^2 ex)^2 + (-x/sep^2 ey)^2) whenever sep > 0.
C4_PaUnc_Original ==
    (Returned /\ call.kind = "coord" /\ ~IsZero(ret[1])) =>
        CloseRel(ret[5], RefPaUncRad, RelTol)

\* C4 amended: the position-angle uncertainty, in degrees, equals
\* (180/pi) sigma sqrt((y/sep^2 ex)^2 + (-x/sep^2 ey)^2) whenever sep > 0: the
\* square root is in radians and convert_params converts it with np.rad2deg.
C4_PaUnc ==
    (Returned /\ call.kind = "coord" /\ ~IsZero(ret[1])) =>
        CloseRel(ret[5], FMul(Lit(5730, 2), RefPaUncRad), RelTol)

\* C4 witness: a non-zero position-angle uncertainty has been returned for
\* different error bars and sigma = 2.
C4_Witness ==
    /\ Returned
    /\ call.kind = "coord"
    /\ call.x = Lit(-3, 0)
    /\ call.y = Lit(2, 0)
    /\ call.ex = Lit(1, 0)
    /\ call.ey = Zero
    /\ call.sigma = Lit(2, 0)
    /\ FLt(Zero, ret[5])

\* sigma sqrt((x/sep ex)^2 + (y/sep ey)^2) from the whole numbers of the call:
\* sigma sqrt((x^2 ex^2 + y^2 ey^2) / (x^2 + y^2)).
RefSepUnc ==
    LET x == AsInt(call.x)
        y == AsInt(call.y)
        ex == AsInt(call.ex)
        ey == AsInt(call.ey)
    IN  FMul(call.sigma,
             np_sqrt(FDiv(Lit(x * x * ex * ex + y * y * ey * ey, 0),
                          Lit(x * x + y * y, 0))))

\* C5: the separation uncertainty equals
\* sigma sqrt((x/sep ex)^2 + (y/sep ey)^2) whenever sep > 0.
C5_SepUnc ==
    (Returned /\ call.kind = "coord" /\ ~IsZero(ret[1])) =>
        CloseRel(ret[4], RefSepUnc, RelTol)

\* C5 witness: a non-zero separation uncertainty has been returned for
\* different error bars and sigma = 2.
C5_Witness ==
    /\ Returned
    /\ call.kind = "coord"
    /\ call.x = Lit(-3, 0)
    /\ call.y = Lit(2, 0)
    /\ call.ex = Zero
    /\ call.ey = Lit(1, 0)
    /\ call.sigma = Lit(2, 0)
    /\ FLt(Zero, ret[4])

\* C6: the separation is sqrt(x^2 + y^2): it is not negative, its square is
\* x^2 + y^2, it is zero only for x = y = 0, and it is the same for (-x, y),
\* (x, -y) and (y, x).
C6_Separation ==
    (Returned /\ call.kind = "coord") =>
        LET x == AsInt(call.x)
            y == AsInt(call.y)
        IN  /\ IsFin(ret[1]) /\ ret[1].m >= 0
            /\ CloseRel(Sq(ret[1]), Lit(x * x + y * y, 0), RelTol)
            /\ IsZero(ret[1]) <=> (x = 0 /\ y = 0)
            /\ ret[1] = conv_sep(FNeg(call.x), call.y)
            /\ ret[1] = conv_sep(call.x, FNeg(call.y))
            /\ ret[1] = conv_sep(call.y, call.x)

\* C6 witness: an offset with |x| # |y| has been converted to a positive
\* separation.
C6_Witness ==
    /\ Returned
    /\ call.kind = "coord"
    /\ call.x = Lit(-3, 0)
    /\ call.y = Lit(2, 0)
    /\ FLt(Lit(3, 0), ret[1])

\* C7: for a flux ratio of 1, mag_diff and the dm output of convert_params
\* are exactly 0.
C7_UnitFlux ==
    (Returned /\ call.f = Lit(1, 0)) => (ret[3] = Zero /\ mag_diff(call.f) = Zero)

\* C7 witness: convert_params has been called with f = 1.
C7_Witness == Returned /\ call.f = Lit(1, 0) /\ ret[3] = Zero

\* C8: mag_diff strictly decreases: for flux ratios 0 < f1 < f2,
\* mag_diff(f1) > mag_diff(f2).
C8_Monotone ==
    (Returned /\ call.kind = "flux") =>
        \A k \in 1..MaxFluxQ :
            FLt(Quarter(k), call.f) => FLt(ret[3], mag_diff(Quarter(k)))

\* C8 witness: dm has been returned for a flux ratio above a smaller positive
\* one.
C8_Witness ==
    /\ Returned
    /\ call.kind = "flux"
    /\ call.f = Quarter(3)
    /\ FLt(ret[3], mag_diff(Quarter(2)))

\* The number of quarters in a float that is a multiple of 0.25.
QuartersOf(a) == ToFixed(a, 2) \div 25

\* C9: the magnitude bounds are mag_diff at f + sigma ef and at f - sigma ef,
\* and whenever 0 < sigma ef < f the bound from f - sigma ef lies strictly
\* farther from dm than the bound from f + sigma ef.
C9_Bounds ==
    (Returned /\ call.kind = "flux") =>
        LET fq == QuartersOf(call.f)
            dq == AsInt(call.sigma) * QuartersOf(call.ef)
        IN  /\ ret[6] = mag_diff(Quarter(fq + dq))
            /\ ret[7] = mag_diff(Quarter(fq - dq))
            /\ (0 < dq /\ dq < fq) =>
                   FLt(FAbs(FSub(ret[3], ret[6])), FAbs(FSub(ret[7], ret[3])))

\* C9 witness: bounds on both sides of dm have been returned for
\* 0 < sigma ef < f.
C9_Witness ==
    /\ Returned
    /\ call.kind = "flux"
    /\ call.f = Quarter(3)
    /\ call.ef = Quarter(1)
    /\ call.sigma = Lit(2, 0)
    /\ FLt(ret[6], ret[3])
    /\ FLt(ret[3], ret[7])

\* The cell "Get the best-fit parameters" has bound f and ef, and one of the
\* arguments it hands to np.log10 is not positive.
InvalidLogReached ==
    /\ nb.f # Undef
    /\ nb.ef # Undef
    /\ InvalidLogArgs(nb.f, nb.ef)

\* C10 as stated: an invalid logarithm argument (f <= 0 or f - sigma ef <= 0)
\* surfaces as an exception that ends the cell calling convert_params.
C10_LogRaises_Original == InvalidLogReached => exc # "none"

\* C10 amended: an invalid logarithm argument raises nothing.  np.log10 prints
\* a RuntimeWarning and returns nan or -inf, so the cell calling convert_params
\* runs to its end without an exception and binds every output, the affected
\* magnitudes to nan or inf; no code in the notebook catches or handles it.
C10_LogWarns ==
    InvalidLogReached =>
        /\ exc = "none"
        /\ pc \in {"print", "detlim", "image", "done"}
        /\ warnings # {}
        /\ \A n \in {"sep_fit", "pa_fit", "dm_fit", "sep_unc", "pa_unc",
                     "dm_upper", "dm_lower", "dm_unc"} : nb[n] # Undef
        /\ FLe(nb.f, Zero) => ~IsFin(nb.dm_fit)
        /\ FLe(FSub(nb.f, nb.ef), Zero) => ~IsFin(nb.dm_lower)

\* C10 witness: the run has finished although f - ef = 0 reached np.log10.
C10_Witness ==
    /\ pc = "done"
    /\ exc = "none"
    /\ nb.f = Quarter(1)
    /\ nb.ef = Quarter(1)
    /\ nb.dm_lower = PInf
    /\ "dm_lower" \in warnings

\* C11: when f <= 0 or f - sigma*ef <= 0 convert_params checks nothing: the
\* magnitude outputs that take the logarithm of the non-positive value are not
\* finite numbers (dm when f <= 0, dm_lower when f - sigma*ef <= 0), and the
\* separation, the position angle and their uncertainties are the values
\* returned for a valid flux ratio at the same offsets.
C11_InvalidFlux ==
    (Returned /\ call.kind = "flux") =>
        LET fq == QuartersOf(call.f)
            dq == AsInt(call.sigma) * QuartersOf(call.ef)
            ok == convert_params(call.x, call.y, Quarter(MaxFluxQ), call.ex,
                                 call.ey, Zero, call.sigma)
        IN  /\ (fq <= 0) <=> ~IsFin(ret[3])
            /\ (fq - dq <= 0) <=> ~IsFin(ret[7])
            /\ IsFin(ok[3]) /\ IsFin(ok[7])
            /\ ret[1] = Lit(5, 0) /\ ret[1] = ok[1]
            /\ ret[2] = ok[2] /\ IsFin(ret[2])
            /\ ret[4] = ok[4] /\ IsFin(ret[4])
            /\ ret[5] = ok[5] /\ IsFin(ret[5])

\* A call with a negative flux ratio has returned a nan dm next to a finite
\* separation.
C11_Witness ==
    /\ Returned /\ call.kind = "flux"
    /\ QuartersOf(call.f) < 0
    /\ IsNaN(ret[3]) /\ IsNaN(ret[7])
    /\ IsFin(ret[1]) /\ IsFin(ret[5])

\* C12: convert_params divides by the separation without a guard: at
\* x = y = 0 the separation is 0 and sep_unc and pa_unc are both nan (0/0),
\* and for every offset with sep > 0 both are finite numbers.
C12_ZeroSeparation ==
    (Returned /\ call.kind = "coord") =>
        LET origin == AsInt(call.x) = 0 /\ AsInt(call.y) = 0
        IN  /\ origin <=> IsZero(ret[1])
            /\ origin => IsNaN(ret[4]) /\ IsNaN(ret[5])
            /\ ~origin => /\ FLt(Zero, ret[1])
                          /\ IsFin(ret[4]) /\ IsFin(ret[5])

\* The call at the origin has returned sep = 0 with nan uncertainties.
C12_Witness ==
    /\ Returned /\ call.kind = "coord"
    /\ AsInt(call.x) = 0 /\ AsInt(call.y) = 0
    /\ IsZero(ret[1]) /\ IsNaN(ret[4]) /\ IsNaN(ret[5])

\* The cells of this run that have been executed, by name.
Cells == {log[i].cell : i \in DOMAIN log}

\* C13: convert_params is pure.  A call leaves every notebook-level name as
\* it was: once the expected values are set, sep, theta and dm stay
\* 370.98, 286.98 and 4.2 through the call (which assigns locals named sep
\* and dm), the call binds nothing but the names the cell unpacks into, and
\* the Expected column prints 370.980, 286.980 and 4.200.  Calling it again
\* with the arguments the cell passed returns what the cell received.
C13_Pure ==
    /\ "expected" \in Cells =>
          /\ nb.sep = Fin(37098, -2)
          /\ nb.theta = Fin(28698, -2)
          /\ nb.dm = Lit(42, 1)
    /\ "getparams" \in Cells =>
          LET again == convert_params(nb.x, nb.y, nb.f, nb.ex, nb.ey, nb.ef,
                                      DefaultSigma)
          IN  /\ <<nb.sep_fit, nb.pa_fit, nb.dm_fit, nb.sep_unc, nb.pa_unc,
                   nb.dm_upper, nb.dm_lower>> = again
              /\ nb.fit = log[Len(log)].fit \/ log[Len(log)].cell # "getparams"
              /\ nb.fit_sub # NoFit /\ nb.defined
    /\ "print" \in Cells =>
          /\ nb.printed[1][1] = [text |-> "fixed", n |-> 370980, d |-> 3]
          /\ nb.printed[2][1] = [text |-> "fixed", n |-> 286980, d |-> 3]
          /\ nb.printed[3][1] = [text |-> "fixed", n |-> 4200, d |-> 3]

\* The table has been printed after a call whose separation and contrast
\* differ from the expected ones.
C13_Witness ==
    /\ "print" \in Cells
    /\ IsFin(nb.sep_fit) /\ nb.sep_fit # nb.sep
    /\ IsFin(nb.dm_fit) /\ nb.dm_fit # nb.dm
    /\ nb.printed[1][1].n = 370980
    /\ nb.printed[1][2].n # 370980

\* C14: each notebook downloads its zip archive at most once: over any
\* sequence of top-to-bottom runs in one working directory, with the
\* downloaded files left on disk, at most one HTTP download is performed.
C14_DownloadOnce == downloads <= 1

\* What the two download cells do: the NIRISS notebook downloads only while
\* the zip is missing, so at most once; the MOS notebook downloads once in
\* every run that gets past its download cell, whatever is on disk.
C14_PerNotebook ==
    /\ notebook = "niriss" => downloads <= 1
    /\ notebook = "mos" =>
          /\ (pc # "m_download" /\ exc = "none") => downloads >= 1
          /\ (pc = "m_download" /\ exc = "none" /\ log = <<>>)
                 => (disk.data <=> downloads >= 1)

\* The MOS notebook has completed its second run on the files of the first.
C14_SecondRun ==
    /\ notebook = "mos" /\ pc = "done" /\ exc = "none" /\ downloads = 2

\* The code cells of the NIRISS notebook from top to bottom.
CellOrder ==
    <<"expected", "download", "readoifits", "covariance", "chi2map", "mcmc",
      "chi2map_sub", "defs", "getparams", "print", "detlim", "image">>

\* The cells that read a file of the extracted archive.
FileReaders == {"readoifits", "covariance", "chi2map", "image"}

\* The place of a cell in the log, 0 if it has not run.
Pos(cell) ==
    IF cell \in Cells THEN CHOOSE i \in DOMAIN log : log[i].cell = cell ELSE 0

Before(a, b) == Pos(b) # 0 => (Pos(a) # 0 /\ Pos(a) < Pos(b))

\* A cell has run to its end.
Completed(cell) ==
    Pos(cell) # 0 /\ (Pos(cell) < Len(log) \/ exc = "none")

\* C15: the NIRISS notebook is one linear pipeline with a fixed order.  The
\* cells of a run are an initial stretch of the notebook's cells; the
\* download cell comes before every cell that reads a file and a read
\* succeeds only on an extracted archive; the covariance step comes before the
\* data are loaded for fitting; chi2map before mcmc; mcmc before chi2map_sub,
\* the convert_params call and detlim; and every cell finds its inputs bound.
C15_LinearOrder ==
    notebook = "niriss" =>
        /\ Len(log) <= Len(CellOrder)
        /\ \A i \in DOMAIN log : log[i].cell = CellOrder[i]
        /\ \A c \in FileReaders :
              /\ Before("download", c)
              /\ Completed(c) => disk.data
        /\ Before("covariance", "chi2map")
        /\ Before("chi2map", "mcmc")
        /\ Before("mcmc", "chi2map_sub")
        /\ Before("mcmc", "getparams")
        /\ Before("mcmc", "detlim")
        /\ Before("defs", "getparams")
        /\ Before("getparams", "print")
        /\ Running("mcmc") => nb.fit # NoFit
        /\ Running("chi2map_sub") => nb.fit # NoFit
        /\ Running("getparams") => nb.fit # NoFit /\ nb.defined /\ nb.dm # Undef
        /\ Running("print") =>
              \A n \in {"sep", "theta", "dm", "sep_fit", "pa_fit", "dm_fit",
                        "sep_unc", "pa_unc", "dm_unc"} : nb[n] # Undef
        /\ Running("detlim") => nb.fit # NoFit

\* A run on an empty working directory has gone through every cell.
C15_Witness ==
    /\ notebook = "niriss" /\ pc = "done" /\ exc = "none"
    /\ downloads = 1
    /\ Len(log) = Len(CellOrder)

\* C16: the fit is unpacked with each parameter next to its own uncertainty:
\* f and ef are element 0 of fit['p'] and fit['dp'], x and ex element 1, y and
\* ey element 2 (elements 1, 2, 3 of the 1-based tuples here), and
\* convert_params receives them as (x, y, f, ex, ey, ef) with sigma = 1: the
\* separation and angle come from the offsets, dm from the flux ratio, each
\* uncertainty from the error bars of its own parameters, unscaled.
C16_Unpacking ==
    "getparams" \in Cells =>
        LET p == nb.fit.p
            dp == nb.fit.dp
            one == Lit(1, 0)
        IN  /\ nb.f = p[1] /\ nb.ef = dp[1]
            /\ nb.x = p[2] /\ nb.ex = dp[2]
            /\ nb.y = p[3] /\ nb.ey = dp[3]
            /\ nb.sep_fit = conv_sep(p[2], p[3])
            /\ nb.pa_fit = conv_pa(p[2], p[3])
            /\ nb.dm_fit = mag_diff(p[1])
            /\ nb.sep_unc = conv_sep_unc(p[2], p[3], nb.sep_fit, dp[2], dp[3], one)
            /\ nb.pa_unc = conv_pa_unc(p[2], p[3], nb.sep_fit, dp[2], dp[3], one)
            /\ nb.dm_upper = mag_diff(FAdd(p[1], dp[1]))
            /\ nb.dm_lower = mag_diff(FSub(p[1], dp[1]))

\* The cell has run on a fit whose offsets differ and whose three error bars
\* differ, with finite results.
C16_Witness ==
    /\ "getparams" \in Cells
    /\ nb.x # nb.y /\ nb.ex # nb.ey /\ nb.ex # nb.ef /\ nb.ey # nb.ef
    /\ nb.f # nb.x
    /\ IsFin(nb.sep_unc) /\ IsFin(nb.pa_unc) /\ IsFin(nb.dm_lower)
    /\ nb.sep_unc # conv_sep_unc(nb.x, nb.y, nb.sep_fit, nb.ey, nb.ex, Lit(1, 0))

\* The five characters Python prints for k under {:05d}, for 0 <= k < 1000.
FiveDigits(k) == <<0, 0, k \div 100, (k \div 10) % 10, k % 10>>

\* C17: the MOS notebook reads the templates by a fixed naming pattern: the
\* 100 files <templatedir>00001.dat .. <templatedir>00100.dat, each once and
\* in ascending order.  While the loop runs, entry k of templatelist (counted
\* from 1 here, k - 1 in Python) comes from file number k; template_match is
\* called only after the 100th append, with the complete list of 100.
C17_Templates ==
    notebook = "mos" =>
        /\ Len(mos.templatelist) <= 100
        /\ \A k \in DOMAIN mos.templatelist :
              mos.templatelist[k] =
                  [dir |-> "./mos_spectroscopy/templates/",
                   digits |-> FiveDigits(k), ext |-> ".dat"]
        /\ pc = "m_loop" => mos.i = Len(mos.templatelist) + 1
        /\ (\E n \in DOMAIN mos.calls : mos.calls[n].fn = "template_match")
              <=> (pc = "done")
        /\ pc = "done" =>
              /\ Len(mos.templatelist) = 100
              /\ mos.matched = mos.templatelist
              /\ mos.templatelist[1].digits = <<0, 0, 0, 0, 1>>
              /\ mos.templatelist[100].digits = <<0, 0, 1, 0, 0>>
        /\ pc # "done" => mos.matched = <<>>

\* template_match has been called with the 100 templates.
C17_Witness ==
    /\ notebook = "mos" /\ pc = "done"
    /\ Len(mos.matched) = 100
    /\ mos.matched[100].digits = <<0, 0, 1, 0, 0>>

\* C18: the fit that is converted and reported is the MCMC result.  From the
\* mcmc cell on, fit holds what the MCMC returned; chi2map_sub binds fit_sub
\* and leaves fit as it was; chi2map_sub, the cell calling convert_params and
\* detlim are each handed that same MCMC fit, and the values unpacked from it
\* are the MCMC's.
C18_McmcFit ==
    (notebook = "niriss" /\ "mcmc" \in Cells) =>
        LET out == log[Pos("mcmc")].out
        IN  /\ out \in FitSet
            /\ nb.fit = out
            /\ \A c \in {"chi2map_sub", "getparams", "detlim"} :
                  Pos(c) # 0 => log[Pos(c)].fit = out
            /\ "chi2map_sub" \in Cells => nb.fit_sub \in GridFits
            /\ "chi2map_sub" \notin Cells => nb.fit_sub = NoFit
            /\ "getparams" \in Cells =>
                  /\ nb.f = out.p[1] /\ nb.x = out.p[2] /\ nb.y = out.p[3]

\* detlim has been handed an MCMC fit that no grid search returns, with a
\* different fit_sub next to it.
C18_Witness ==
    /\ notebook = "niriss" /\ "detlim" \in Cells
    /\ log[Pos("detlim")].fit = log[Pos("mcmc")].out
    /\ nb.fit \notin GridFits
    /\ nb.fit_sub # nb.fit

\* ------------------------------------------------------------------------
\* The function check: the baselines cell and the plot cell on bounded files
\* ------------------------------------------------------------------------

\* Sub-apertures of the mask.
NHoles == 4

\* Where a sub-aperture may sit (x, y in metres on a small grid).
HolePositions == {<<0, 0>>, <<3, 0>>, <<1, 2>>}

\* STAXYZ of OI_ARRAY: one (x, y, z) row for each sub-aperture.
HoleLayouts ==
    {[h \in 1..NHoles |-> <<Lit(l[h][1], 0), Lit(l[h][2], 0), Zero>>] :
        l \in [1..NHoles -> HolePositions]}

\* The pairs and the triples of 1-based station indices in the order an
\* OIFITS file lists them.
RECURSIVE PairsFrom(_, _)
PairsFrom(a, b) ==
    IF a >= NHoles THEN <<>>
    ELSE IF b > NHoles THEN PairsFrom(a + 1, a + 2)
    ELSE <<(<<a, b>>)>> \o PairsFrom(a, b + 1)

RECURSIVE TriplesFrom(_, _, _)
TriplesFrom(a, b, c) ==
    IF a >= NHoles - 1 THEN <<>>
    ELSE IF b >= NHoles THEN TriplesFrom(a + 1, a + 2, a + 3)
    ELSE IF c > NHoles THEN TriplesFrom(a, b + 1, b + 2)
    ELSE <<(<<a, b, c>>)>> \o TriplesFrom(a, b, c + 1)

\* The rows of a table turned by r places, every station tuple reversed when
\* rev is set.
Reverse(t) == [k \in DOMAIN t |-> t[Len(t) + 1 - k]]

Turned(rows, r, rev) ==
    [k \in DOMAIN rows |->
        LET t == rows[((k - 1 + r) % Len(rows)) + 1]
        IN  IF rev THEN Reverse(t) ELSE t]

\* An OIFITS file: the station coordinates, the STA_INDEX column of OI_VIS2
\* and of OI_T3, the squared visibility and closure phase of each row (here
\* the number of the row) and the wavelength 4.8e-6 m.
OifitsFiles ==
    {[kind |-> "oifits", hole_ctrs |-> l,
      bl_idx |-> Turned(PairsFrom(1, 2), r, rev),
      tri_idx |-> Turned(TriplesFrom(1, 2, 3), r, rev),
      sqvis |-> [k \in DOMAIN PairsFrom(1, 2) |-> Lit(k, 1)],
      cp |-> [k \in DOMAIN TriplesFrom(1, 2, 3) |-> Lit(-k, 0)],
      wavel |-> Lit(48, 7)] :
        l \in HoleLayouts, r \in 0..(NHoles - 1), rev \in BOOLEAN}

InitBase ==
    /\ pc = "baselines"
    /\ nb = EmptyNamespace
    /\ disk = [zip |-> TRUE, data |-> TRUE]
    /\ downloads = 0
    /\ exc = "none"
    /\ warnings = {}
    /\ call \in OifitsFiles
    /\ ret = <<>>
    /\ notebook = "niriss"
    /\ log = <<>>
    /\ mos = EmptyMos

\* The cell "Calculate the length of the baseline [m] for each pair".
Baselines ==
    /\ Running("baselines")
    /\ LET baselines == calc_baselines(call.hole_ctrs, call.bl_idx)
           tri_baselines == calc_tri_baselines(call.hole_ctrs, call.tri_idx)
           tri_longest == calc_tri_longest(tri_baselines)
       IN  ret' = [baselines |-> baselines,
                   tri_baselines |-> tri_baselines,
                   tri_longest |-> tri_longest,
                   bmaxlambda_sqvis |-> over_wavel(baselines, call.wavel),
                   bmaxlambda_cp |-> over_wavel(tri_longest, call.wavel),
                   bl_strings |-> sta_labels(call.bl_idx),
                   tri_strings |-> sta_labels(call.tri_idx),
                   ax1 |-> <<>>, ax2 |-> <<>>]
    /\ pc' = "plot"
    /\ UNCHANGED <<nb, disk, downloads, exc, warnings, call, notebook, log,
                   mos>>

\* The cell "Plot closure phases, square visibilities": the annotations.
PlotObservables ==
    /\ Running("plot")
    /\ ret' = [ret EXCEPT
                  !.ax1 = annotate(ret.tri_strings, ret.bmaxlambda_cp, call.cp),
                  !.ax2 = annotate(ret.bl_strings, ret.bmaxlambda_sqvis,
                                   call.sqvis)]
    /\ pc' = "plotted"
    /\ UNCHANGED <<nb, disk, downloads, exc, warnings, call, notebook, log,
                   mos>>

NextBase == Baselines \/ PlotObservables

SpecBase == InitBase /\ [][NextBase]_vars

\* The squared distance, a whole number, between the sub-apertures with the
\* 1-based station indices a and b of the file.
Dist2(a, b) ==
    LET ha == call.hole_ctrs[a]
        hb == call.hole_ctrs[b]
    IN  (AsInt(ha[1]) - AsInt(hb[1])) * (AsInt(ha[1]) - AsInt(hb[1]))
        + (AsInt(ha[2]) - AsInt(hb[2])) * (AsInt(ha[2]) - AsInt(hb[2]))

Max3(a, b, c) ==
    IF a >= b /\ a >= c THEN a ELSE IF b >= c THEN b ELSE c

\* A float is the square root of the whole number n, to the rounding.
IsRootOf(a, n) == IsFin(a) /\ ~(a.m < 0) /\ CloseRel(Sq(a), Lit(n, 0), RelTol)

\* C19: B_max for plotting.  For every baseline row the length is the
\* Euclidean distance between the centres of the two sub-apertures its
\* 1-based STA_INDEX pair names; for every triangle row tri_longest is the
\* longest of the three pairwise distances: it is one of the three lengths and
\* no smaller than any.  The lists have the length and the order of the rows,
\* and point i is annotated with the label 'a_b' or 'a_b_c' of row i at
\* (B_max / wavelength, value) of row i.
C19_Bmax ==
    (call.kind = "oifits" /\ pc # "baselines") =>
        /\ Len(ret.baselines) = Len(call.bl_idx)
        /\ Len(ret.tri_longest) = Len(call.tri_idx)
        /\ \A r \in DOMAIN call.bl_idx :
              LET s == call.bl_idx[r]
              IN  /\ IsRootOf(ret.baselines[r], Dist2(s[1], s[2]))
                  /\ ret.bl_strings[r].digits = <<(<<s[1]>>), (<<s[2]>>)>>
                  /\ CloseRel(FMul(ret.bmaxlambda_sqvis[r], call.wavel),
                              ret.baselines[r], RelTol)
        /\ \A r \in DOMAIN call.tri_idx :
              LET s == call.tri_idx[r]
                  longest == ret.tri_longest[r]
                  three == ret.tri_baselines[r]
              IN  /\ IsRootOf(longest, Max3(Dist2(s[1], s[2]), Dist2(s[2], s[3]),
                                           Dist2(s[3], s[1])))
                  /\ \E k \in 1..3 : longest = three[k]
                  /\ \A k \in 1..3 : FLe(three[k], longest)
                  /\ ret.tri_strings[r].digits =
                         <<(<<s[1]>>), (<<s[2]>>), (<<s[3]>>)>>
                  /\ CloseRel(FMul(ret.bmaxlambda_cp[r], call.wavel), longest,
                              RelTol)
        /\ pc = "plotted" =>
              /\ Len(ret.ax1) = Len(call.tri_idx)
              /\ Len(ret.ax2) = Len(call.bl_idx)
              /\ \A r \in DOMAIN call.tri_idx :
                    /\ ret.ax1[r].text = ret.tri_strings[r]
                    /\ ret.ax1[r].xy = <<ret.bmaxlambda_cp[r], call.cp[r]>>
              /\ \A r \in DOMAIN call.bl_idx :
                    /\ ret.ax2[r].text = ret.bl_strings[r]
                    /\ ret.ax2[r].xy = <<ret.bmaxlambda_sqvis[r], call.sqvis[r]>>

\* The points are annotated for a file whose first triangle has its longest
\* side last and whose rows are turned and reversed.
C19_Witness ==
    /\ call.kind = "oifits" /\ pc = "plotted"
    /\ call.bl_idx[1] # <<1, 2>>
    /\ LET three == ret.tri_baselines[1]
       IN  /\ FLt(three[1], three[3]) /\ FLt(three[2], three[3])
           /\ ret.tri_longest[1] = three[3]
    /\ ret.ax1[1].text.digits # <<(<<1>>), (<<2>>), (<<3>>)>>

\* The pixels of the file whose weight is positive, by whole-number weight.
KeptPixels == {i \in DOMAIN mos.hdu.wht : AsInt(mos.hdu.wht[i]) > 0}

\* The k-th of them in file order.
KthKept(k) ==
    CHOOSE i \in KeptPixels : Cardinality({j \in KeptPixels : j < i}) = k - 1

\* C20: the spectrum handed to specutils holds exactly the pixels with
\* weight > 0.  Row k of dataspec_sub, and element k of spec1d, is the k-th
\* pixel of the file with a positive weight: its wavelength, flux and weight,
\* with the finite positive uncertainty 1/sqrt(weight).  Pixels with
\* weight <= 0 are absent, the order of the file is kept.
C20_PositiveWeights ==
    (notebook = "mos" /\ mos.table # "none") =>
        /\ Len(mos.dataspec_sub) = Cardinality(KeptPixels)
        /\ \A k \in DOMAIN mos.dataspec_sub :
              LET row == mos.dataspec_sub[k]
                  i == KthKept(k)
              IN  /\ FLt(Zero, row.weight)
                  /\ IsFin(row.uncertainty) /\ FLt(Zero, row.uncertainty)
                  /\ CloseRel(FMul(Sq(row.uncertainty), row.weight), Lit(1, 0),
                              RelTol)
                  /\ row.index = k - 1
                  /\ row.weight = mos.hdu.wht[i]
                  /\ row.flux = mos.hdu.flux[i]
                  /\ row.wavelength =
                         FAdd(Lit(6000, 0), FMul(Lit(i - 1, 0), Lit(6, 1)))
        /\ \A i \in DOMAIN mos.hdu.wht :
              i \notin KeptPixels =>
                  \A k \in DOMAIN mos.dataspec_sub :
                      mos.dataspec_sub[k].flux # mos.hdu.flux[i]
        /\ mos.spec1d # NoSpectrum =>
              /\ mos.table = "QTable"
              /\ Len(mos.spec1d.flux) = Len(mos.dataspec_sub)
              /\ \A k \in DOMAIN mos.dataspec_sub :
                    /\ mos.spec1d.spectral_axis[k] = mos.dataspec_sub[k].wavelength
                    /\ mos.spec1d.flux[k] = mos.dataspec_sub[k].flux
                    /\ mos.spec1d.uncertainty[k] = mos.dataspec_sub[k].uncertainty
        /\ \A n \in DOMAIN mos.calls :
              mos.calls[n].fn \in {"gaussian_smooth", "fit_generic_continuum",
                                   "template_match"}
                  => mos.calls[n].spectrum = mos.spec1d

\* spec1d has been built from a file whose middle pixel has weight 0, between
\* pixels of weight 1 and 16.
C20_Witness ==
    /\ notebook = "mos" /\ mos.spec1d # NoSpectrum
    /\ mos.hdu.wht = <<Lit(1, 0), Lit(0, 0), Lit(16, 0)>>
    /\ mos.spec1d.uncertainty = <<Lit(1, 0), Lit(25, 2)>>
    /\ mos.spec1d.flux = <<mos.hdu.flux[1], mos.hdu.flux[3]>>
    /\ \E n \in DOMAIN mos.calls : mos.calls[n].fn = "fit_generic_continuum"

\* ------------------------------------------------------------------------
\* C21: the spectrum form each MOS measurement receives
\* ------------------------------------------------------------------------

\* The routines by the spectrum form the notebook text gives them.
OnOriginal == {"gaussian_smooth", "fit_generic_continuum", "template_match"}
OnSubtracted == {"find_lines_derivative", "find_lines_threshold", "centroid",
                 "line_flux", "fit_lines"}
OnNormalised == {"equivalent_width"}

\* The spectrum built from the filtered table: what spec1d was when created.
OriginalSpectrum ==
    [spectral_axis |-> [k \in DOMAIN mos.dataspec_sub |->
                            mos.dataspec_sub[k].wavelength],
     flux |-> [k \in DOMAIN mos.dataspec_sub |-> mos.dataspec_sub[k].flux],
     uncertainty |-> [k \in DOMAIN mos.dataspec_sub |->
                          mos.dataspec_sub[k].uncertainty]]

\* s is the original with the continuum q taken off its flux, pixel by pixel.
IsSubtracted(s, q) ==
    /\ s.spectral_axis = OriginalSpectrum.spectral_axis
    /\ DOMAIN s.flux = DOMAIN OriginalSpectrum.flux
    /\ \A k \in DOMAIN s.flux :
          s.flux[k] = FSub(OriginalSpectrum.flux[k], q[k])

\* s is the original with its flux divided by the continuum q, pixel by pixel.
IsNormalised(s, q) ==
    /\ s.spectral_axis = OriginalSpectrum.spectral_axis
    /\ DOMAIN s.flux = DOMAIN OriginalSpectrum.flux
    /\ \A k \in DOMAIN s.flux :
          s.flux[k] = FDiv(OriginalSpectrum.flux[k], q[k])

\* The cells of the MOS notebook from the creation of spec1d on.
AfterSpec1d == {"m_continuum", "m_subtract", "m_lines", "m_normalize",
                "m_templates", "m_loop", "done"}

\* C21: in the MOS notebook, once spec1d exists it stays the spectrum built
\* from the filtered table, through the creation of spec1d_sub and
\* spec1d_norm; gaussian_smooth, fit_generic_continuum and template_match
\* receive that original spectrum; the continuum is fitted while no
\* subtracted spectrum exists yet; both line finders, centroid, line_flux and
\* fit_lines receive only the continuum-subtracted spectrum (original flux
\* minus cont_fit); equivalent_width receives only the continuum-normalised
\* spectrum (original flux over cont_fit); and every one of the three forms
\* is a different spectrum.
C21_SpectrumForms ==
    notebook = "mos" =>
        /\ pc \in AfterSpec1d => mos.spec1d = OriginalSpectrum
        /\ pc \in {"m_open", "m_pandas", "m_qtable", "m_spec1d", "m_continuum",
                   "m_subtract", "m_download"} =>
              /\ mos.spec1d_sub = NoSpectrum
              /\ mos.spec1d_norm = NoSpectrum
              /\ \A n \in DOMAIN mos.calls : mos.calls[n].fn \in OnOriginal
        /\ mos.spec1d_sub # NoSpectrum =>
              /\ IsSubtracted(mos.spec1d_sub, mos.cont_fit)
              /\ mos.spec1d_sub # mos.spec1d
        /\ mos.spec1d_norm # NoSpectrum =>
              /\ IsNormalised(mos.spec1d_norm, mos.cont_fit)
              /\ mos.spec1d_norm # mos.spec1d
              /\ mos.spec1d_norm # mos.spec1d_sub
        /\ \A n \in DOMAIN mos.calls :
              LET c == mos.calls[n]
              IN  /\ c.fn \in OnOriginal \cup OnSubtracted \cup OnNormalised
                  /\ c.fn \in OnOriginal => c.spectrum = OriginalSpectrum
                  /\ c.fn \in OnSubtracted =>
                        /\ c.spectrum = mos.spec1d_sub
                        /\ IsSubtracted(c.spectrum, mos.cont_fit)
                  /\ c.fn \in OnNormalised =>
                        /\ c.spectrum = mos.spec1d_norm
                        /\ IsNormalised(c.spectrum, mos.cont_fit)

\* C21 witness: a finished MOS run in which every routine was called, the
\* last call being template_match on the original spectrum.
C21_Witness ==
    /\ notebook = "mos"
    /\ pc = "done"
    /\ exc = "none"
    /\ {mos.calls[n].fn : n \in DOMAIN mos.calls}
           = OnOriginal \cup OnSubtracted \cup OnNormalised
    /\ mos.calls[Len(mos.calls)] = [fn |-> "template_match",
                                    spectrum |-> mos.spec1d]
    /\ mos.spec1d_sub # NoSpectrum
    /\ mos.spec1d_norm # NoSpectrum

\* ------------------------------------------------------------------------
\* C22: what the sigma argument of convert_params touches
\* ------------------------------------------------------------------------

\* sep, pa and dm of the call are those of the call at the same x, y, f with
\* no error bars and sigma = 0: every choice of ex, ey, ef and sigma at one
\* x, y, f gives the same three values.
SigmaFree ==
    LET r == convert_params(call.x, call.y, call.f, Zero, Zero, Zero, Zero)
    IN  r[1] = ret[1] /\ r[2] = ret[2] /\ r[3] = ret[3]

\* sep_unc and pa_unc of the call are sigma times their values for sigma = 1.
SigmaLinear ==
    LET one == convert_params(call.x, call.y, call.f, call.ex, call.ey,
                              call.ef, Lit(1, 0))
    IN  /\ ret[4] = FMul(call.sigma, one[4])
        /\ ret[5] = FMul(call.sigma, one[5])

\* C22 as stated: sep, pa and dm are independent of sigma, ex, ey and ef;
\* sep_unc and pa_unc for sigma = k are k times their values for sigma = 1 and
\* are non-negative for sigma >= 0; with sigma = 0 both uncertainties are 0
\* and both magnitude bounds equal dm.  No condition on x and y.
C22_SigmaScaling_Original ==
    (Returned /\ call.kind \in {"coord", "flux"}) =>
        /\ SigmaFree
        /\ SigmaLinear
        /\ FLe(Zero, call.sigma) =>
              FLe(Zero, ret[4]) /\ FLe(Zero, ret[5])
        /\ IsZero(call.sigma) =>
              /\ ret[4] = Zero /\ ret[5] = Zero
              /\ ret[6] = ret[3] /\ ret[7] = ret[3]

\* C22 amended: sep, pa and dm are independent of sigma, ex, ey and ef;
\* sep_unc and pa_unc for sigma = k are k times their values for sigma = 1;
\* with sigma = 0 both magnitude bounds are the value of dm.  For
\* (x, y) # (0, 0) the two uncertainties are non-negative for sigma >= 0 and
\* are 0 for sigma = 0; at x = y = 0 they are nan for every sigma, sigma = 0
\* included (nan * 0 is nan), so there they are neither 0 nor non-negative.
C22_SigmaScaling ==
    (Returned /\ call.kind \in {"coord", "flux"}) =>
        LET origin == IsZero(call.x) /\ IsZero(call.y)
        IN  /\ SigmaFree
            /\ SigmaLinear
            /\ IsZero(call.sigma) => ret[6] = ret[3] /\ ret[7] = ret[3]
            /\ (~origin /\ FLe(Zero, call.sigma)) =>
                  FLe(Zero, ret[4]) /\ FLe(Zero, ret[5])
            /\ (~origin /\ IsZero(call.sigma)) =>
                  ret[4] = Zero /\ ret[5] = Zero
            /\ origin => IsNaN(ret[4]) /\ IsNaN(ret[5])

\* C22 witness: a call with sigma = 2 away from the origin has returned
\* positive uncertainties, twice those of sigma = 1, and bounds off dm.
C22_Witness ==
    /\ Returned /\ call.kind = "coord"
    /\ call.x = Lit(3, 0) /\ call.y = Lit(-2, 0)
    /\ call.ex = Lit(1, 0) /\ call.ey = Lit(1, 0)
    /\ call.sigma = Lit(2, 0)
    /\ FLt(Zero, ret[4]) /\ FLt(Zero, ret[5])
    /\ ret[4] = FMul(Lit(2, 0), conv_sep_unc(call.x, call.y, ret[1], call.ex,
                                             call.ey, Lit(1, 0)))
    /\ ret[6] # ret[3]

\* ------------------------------------------------------------------------
\* C23: the range of the position angle
\* ------------------------------------------------------------------------

DmTol == Lit(5, 3)

\* Two results agree: finite and within DmTol, or the same nan or inf.
SameDm(a, b) == IF IsFin(a) /\ IsFin(b) THEN Close(a, b, DmTol) ELSE a = b

\* (dm_lower - dm_upper) / 2
HalfWidth(dm_upper, dm_lower) == FDiv(FSub(dm_lower, dm_upper), Lit(2, 0))

\* Values the name dm could hold when the cell runs.
DmValues == {Zero, Lit(42, 1), Lit(-3, 0), Lit(9, 0)}

\* C24: once the cell "Get the best-fit parameters" has run, dm_unc is the
\* mean of dm - dm_upper and dm_lower - dm taken with the notebook's expected
\* dm = 4.2, not with dm_fit; it equals (dm_lower - dm_upper)/2, it is what
\* the same mean gives with dm_fit or with any other value in place of dm,
\* and it is non-negative whenever 0 <= ef < f.
C24_DmUnc ==
    (notebook = "niriss" /\ nb.dm_unc # Undef) =>
        /\ nb.dm = Lit(42, 1)
        /\ nb.dm_unc = FDiv(FAdd(FSub(Lit(42, 1), nb.dm_upper),
                                 FSub(nb.dm_lower, Lit(42, 1))), Lit(2, 0))
        /\ SameDm(nb.dm_unc, HalfWidth(nb.dm_upper, nb.dm_lower))
        /\ SameDm(nb.dm_unc,
                  FDiv(FAdd(FSub(nb.dm_fit, nb.dm_upper),
                            FSub(nb.dm_lower, nb.dm_fit)), Lit(2, 0)))
        /\ \A d \in DmValues :
              SameDm(nb.dm_unc,
                     FDiv(FAdd(FSub(d, nb.dm_upper), FSub(nb.dm_lower, d)),
                          Lit(2, 0)))
        /\ (FLe(Zero, nb.ef) /\ FLt(nb.ef, nb.f)) =>
              IsFin(nb.dm_unc) /\ FLe(Zero, nb.dm_unc)

\* C24 witness: the cell has run on a fit with 0 <= ef < f whose dm_fit is not
\* the expected dm, and dm_unc is a positive number.
C24_Witness ==
    /\ notebook = "niriss"
    /\ nb.dm_unc # Undef
    /\ FLt(nb.ef, nb.f)
    /\ IsFin(nb.dm_fit) /\ nb.dm_fit # nb.dm
    /\ FLt(Zero, nb.dm_unc)
    /\ FLt(nb.dm_upper, nb.dm_lower)

\* ------------------------------------------------------------------------
\* C25: the order of the magnitude outputs
\* ------------------------------------------------------------------------

\* C25: whenever 0 < sigma ef < f the three magnitudes are finite and
\* dm_upper < dm < dm_lower: the output named dm_upper, the magnitude of the
\* larger flux f + sigma ef, is the smaller number, and the output named
\* dm_lower, the magnitude of the smaller flux f - sigma ef, is the larger.
C25_DmOrder ==
    (Returned /\ call.kind = "flux") =>
        LET fq == QuartersOf(call.f)
            dq == AsInt(call.sigma) * QuartersOf(call.ef)
        IN  (0 < dq /\ dq < fq) =>
                /\ IsFin(ret[3]) /\ IsFin(ret[6]) /\ IsFin(ret[7])
                /\ FLt(call.f, FAdd(call.f, FMul(call.ef, call.sigma)))
                /\ ret[6] = mag_diff(FAdd(call.f, FMul(call.ef, call.sigma)))
                /\ FLt(FSub(call.f, FMul(call.ef, call.sigma)), call.f)
                /\ ret[7] = mag_diff(FSub(call.f, FMul(call.ef, call.sigma)))
                /\ FLt(ret[6], ret[3])
                /\ FLt(ret[3], ret[7])

\* C25 witness: for f = 1, ef = 0.25, sigma = 1 the call has returned a
\* negative dm_upper, dm = 0 and a positive dm_lower.
C25_Witness ==
    /\ Returned /\ call.kind = "flux"
    /\ call.f = Quarter(4) /\ call.ef = Quarter(1) /\ call.sigma = Lit(1, 0)
    /\ FLt(ret[6], Zero) /\ ret[3] = Zero /\ FLt(Zero, ret[7])

====
